---- MODULE Spec2Model ----
(***************************************************************************)
(* electric2go: reconstruction of per-vehicle parkings and trips from      *)
(* periodic fleet snapshots.                                               *)
(*                                                                         *)
(* The model follows src/electric2go/analysis/normalize.py: process_data   *)
(* (one snapshot, the two open-state maps) and batch_load_data (the loop   *)
(* over timestamps).  Python dicts are functions whose domain is the key   *)
(* set, lists are sequences, datetimes are integer seconds.                *)
(***************************************************************************)
EXTENDS Integers, Sequences, FiniteSets, TLC

(***************************************************************************)
(* Bounds of the model.  Three shapes of input are explored: a fleet of    *)
(* two vehicles over few cycles, one vehicle with varying fuel and         *)
(* attributes, and one vehicle over a long range of cycles.  The last      *)
(* bound is the number of files in the directory that the batch_load_data  *)
(* of src/normalize.py reads.                                              *)
(***************************************************************************)
MaxCyclesWide == 3
MaxCyclesRich == 3
MaxCyclesLong == 8
MaxCyclesOld == 3
MaxCyclesDup == 3
MaxCyclesKeys == 3
MaxCyclesObjects == 4
MaxCyclesScript == 4
MaxCyclesTwice == 3

VARIABLES
    cfg,                        \* the shape of the input files of this run
    system,                     \* batch_load_data parameter
    location,                   \* what the location parameter names
    archive,                    \* the handle of tarfile.open(location)
    starting_time,              \* batch_load_data parameter
    ending_time,                \* batch_load_data parameter, then clamped
    time_step,                  \* batch_load_data parameter (seconds)
    last_file_time,             \* time of the last file in the location
    requested_ending_time,      \* ending_time as passed by the caller
    t,                          \* time of the current iteration
    prev_t,                     \* time of the previous good dataset
    unfinished_trips,
    unfinished_parkings,
    unstarted_trips,
    finished_trips,
    finished_parkings,
    missing_data_points,
    data,                       \* what load_data_point returned last
    new_finished_trips,         \* process_data results of the last iteration
    new_finished_parkings,
    unstarted_trips_this_round,
    history,                    \* per iteration: the time and who was listed
    result,                     \* the returned dict, once the loop is over
    load_data_point,            \* the loader chosen for the location
    old_i,                      \* src/normalize.py: i, number of the file
    max_files,                  \* src/normalize.py: parameter
    max_skip,                   \* src/normalize.py: parameter
    skipped,                    \* src/normalize.py: files skipped in a row
    potentially_missing,        \* src/normalize.py: files skipped so far
    heap,                       \* the dictionaries of the records as objects
    file_dir,                   \* src/process.py: the files of file_dir
    saved_data,                 \* src/process.py: last known state per vin
    trips_by_vin,               \* src/process.py
    data_frames,                \* src/process.py
    all_trips,                  \* src/process.py
    pc                          \* "start", "loop", "done" (returned),
                                \* "raised" (an exception left the
                                \* function) or "exit" (sys.exit)

vars == <<cfg, system, location, archive, starting_time, ending_time, time_step, last_file_time,
          requested_ending_time, t, prev_t, unfinished_trips,
          unfinished_parkings, unstarted_trips, finished_trips, finished_parkings, missing_data_points, data,
          new_finished_trips, new_finished_parkings,
          unstarted_trips_this_round, history, result, load_data_point,
          old_i, max_files, max_skip, skipped, potentially_missing,
          heap, file_dir, saved_data, trips_by_vin, data_frames, all_trips, pc>>

(***************************************************************************)
(* Python dict operations.                                                 *)
(***************************************************************************)
EmptyDict == << >>

Has(d, k) == k \in DOMAIN d

Put(d, k, v) == [x \in (DOMAIN d) \cup {k} |-> IF x = k THEN v ELSE d[x]]

Del(d, k) == [x \in (DOMAIN d) \ {k} |-> d[x]]

Update(d, e) == [x \in (DOMAIN d) \cup (DOMAIN e) |->
                    IF x \in DOMAIN e THEN e[x] ELSE d[x]]

Abs(x) == IF x < 0 THEN -x ELSE x

(***************************************************************************)
(* The value None / False of Python and the parsed payloads.               *)
(***************************************************************************)
None == [py |-> "None"]

False == [py |-> "False"]

\* bool(x) of a value that load_data_point can return
Truthy(x) == x.py = "dict" /\ DOMAIN x # {"py"}

(***************************************************************************)
(* Provider adapter (parse module).                                        *)
(***************************************************************************)
get_cars_from_json(json) == json.placemarks

extract_car_basics(car) == <<car.vin, car.lat, car.lng>>

extract_car_data(car) == car

(***************************************************************************)
(* cars.dist: great-circle distance in km.  The haversine formula works on *)
(* floats; on the integer grid of the model the distance is the arc of the *)
(* latitude difference plus the arc of the longitude difference on a       *)
(* sphere of radius R, rounded down, which is zero exactly for equal       *)
(* points and symmetric, as the original.                                  *)
(***************************************************************************)
R == 6371

\* deg * (math.pi / 180.0), in microradians
deg2rad(deg) == (deg * 3141593) \div 180

dist(ll1, ll2) ==
    LET dLat == deg2rad(ll2[1] - ll1[1])
        dLon == deg2rad(ll2[2] - ll1[2])
    IN  (R * (Abs(dLat) + Abs(dLon))) \div 1000000

(***************************************************************************)
(* calculate_parking, calculate_trip                                       *)
(***************************************************************************)
\* variant: the difference is taken the wrong way round
calculate_parking_reversed(d) ==
    Put(d, "duration", d.starting_time - d.ending_time)

calculate_parking(d) ==
    Put(d, "duration", d.ending_time - d.starting_time)

\* variant: the speed is filled in only for a trip with a distance
set_speed_if_moved(trip_data) ==
    IF trip_data.duration > 0 /\ trip_data.distance > 0
    THEN Put(trip_data, "speed",
             (trip_data.distance * 3600) \div trip_data.duration)
    ELSE trip_data

\* "if current_trip_duration > 0: trip_data['speed'] = ...", on a trip that
\* holds its distance and duration
set_speed(trip_data) ==
    IF trip_data.duration > 0
    THEN Put(trip_data, "speed",
             (trip_data.distance * 3600) \div trip_data.duration)
    ELSE trip_data

\* variant: the speed is never filled in
calculate_trip_no_speed(trip_data) ==
    Update(trip_data,
           [distance |-> dist(trip_data.to, trip_data.from),
            duration |-> trip_data.ending_time - trip_data.starting_time,
            fuel_use |-> trip_data.starting_fuel - trip_data.ending_fuel])

\* variant: the duration is kept in minutes
calculate_trip_minutes(trip_data) ==
    set_speed(
        Update(trip_data,
               [distance |-> dist(trip_data.to, trip_data.from),
                duration |-> (trip_data.ending_time
                                - trip_data.starting_time) \div 60,
                fuel_use |-> trip_data.starting_fuel - trip_data.ending_fuel]))

calculate_trip(trip_data) ==
    set_speed(
        Update(trip_data,
               [distance |-> dist(trip_data.to, trip_data.from),
                duration |-> trip_data.ending_time - trip_data.starting_time,
                fuel_use |-> trip_data.starting_fuel - trip_data.ending_fuel]))

(***************************************************************************)
(* process_data and its inner functions.                                   *)
(***************************************************************************)
RECOGNIZED_KEYS == {"vin", "lat", "lng", "fuel"}

IGNORED_KEYS == {"name", "license_plate", "address", "model", "color",
                 "fuel_type", "transmission"}

\* keys of the first car that are tracked for trips; nothing is read from
\* OTHER_KEYS when no car is listed
OTHER_KEYS(available_cars) ==
    IF Len(available_cars) > 0
    THEN (DOMAIN extract_car_data(available_cars[1]))
            \ (RECOGNIZED_KEYS \cup IGNORED_KEYS)
    ELSE {}

\* variant: coords holds (lng, lat)
process_car_swapped(car_info, other_keys) ==
    [k \in {"vin", "coords", "fuel"} \cup other_keys |->
        CASE k = "vin"    -> extract_car_data(car_info).vin
          [] k = "coords" -> <<extract_car_data(car_info).lng,
                               extract_car_data(car_info).lat>>
          [] k = "fuel"   -> extract_car_data(car_info).fuel
          [] OTHER        -> extract_car_data(car_info)[k]]

process_car(car_info, other_keys) ==
    [k \in {"vin", "coords", "fuel"} \cup other_keys |->
        CASE k = "vin"    -> extract_car_data(car_info).vin
          [] k = "coords" -> <<extract_car_data(car_info).lat,
                               extract_car_data(car_info).lng>>
          [] k = "fuel"   -> extract_car_data(car_info).fuel
          [] OTHER        -> extract_car_data(car_info)[k]]

start_parking(curr_time, new_car_data, other_keys) ==
    Put(process_car(new_car_data, other_keys), "starting_time", curr_time)

\* variant: the parking is closed at the time it started
end_parking_at_start(prev_time, unfinished_parking) ==
    calculate_parking(Put(unfinished_parking, "ending_time",
                          unfinished_parking.starting_time))

end_parking(prev_time, unfinished_parking) ==
    calculate_parking(Put(unfinished_parking, "ending_time", prev_time))

\* variant: starting_time of the parking is kept as the trip's
start_trip_keeps_time(curr_time, starting_car_info) ==
    Del(Del(Del(Update(starting_car_info,
                       [from |-> starting_car_info.coords,
                        starting_fuel |-> starting_car_info.fuel]),
                "coords"), "ending_time"), "fuel")

start_trip(curr_time, starting_car_info) ==
    Del(Del(Del(Update(starting_car_info,
                       [from |-> starting_car_info.coords,
                        starting_time |-> curr_time,
                        starting_fuel |-> starting_car_info.fuel]),
                "coords"), "ending_time"), "fuel")

\* variant: the start sub-dict is filled from the new listing as well
split_trip_keys_from_listing(trip_data, new_car_data, other_keys) ==
    [k \in ((DOMAIN trip_data) \ other_keys) \cup {"start", "end"} |->
        CASE k = "start" -> [key \in other_keys |-> new_car_data[key]]
          [] k = "end"   -> [key \in other_keys |-> new_car_data[key]]
          [] OTHER       -> trip_data[k]]

\* the loop "for key in OTHER_KEYS" of end_trip: the tracked keys move into
\* the start and end sub-dicts
split_trip_keys(trip_data, new_car_data, other_keys) ==
    [k \in ((DOMAIN trip_data) \ other_keys) \cup {"start", "end"} |->
        CASE k = "start" -> [key \in other_keys |-> trip_data[key]]
          [] k = "end"   -> [key \in other_keys |-> new_car_data[key]]
          [] OTHER       -> trip_data[k]]

\* end_trip once process_car has produced new_car_data
close_trip(prev_time, new_car_data, unfinished_trip, other_keys) ==
    split_trip_keys(
        calculate_trip(Update(unfinished_trip,
                              [to |-> new_car_data.coords,
                               ending_time |-> prev_time,
                               ending_fuel |-> new_car_data.fuel])),
        new_car_data, other_keys)

end_trip(prev_time, ending_car_info, unfinished_trip, other_keys) ==
    close_trip(prev_time, process_car(ending_car_info, other_keys),
               unfinished_trip, other_keys)

\* the loop "for key in OTHER_KEYS" of end_unstarted_trip
split_unstarted_keys(trip_data, other_keys) ==
    [k \in ((DOMAIN trip_data) \ other_keys) \cup {"end"} |->
        IF k = "end" THEN [key \in other_keys |-> trip_data[key]]
        ELSE trip_data[k]]

\* end_unstarted_trip once process_car has produced trip_data
close_unstarted_trip(prev_time, trip_data, other_keys) ==
    split_unstarted_keys(
        Del(Del(Update(trip_data,
                       [ending_time |-> prev_time,
                        to |-> trip_data.coords,
                        ending_fuel |-> trip_data.fuel]),
                "coords"), "fuel"),
        other_keys)

\* variant: ending_fuel is not filled in
end_unstarted_trip_no_fuel(prev_time, ending_car_info, other_keys) ==
    split_unstarted_keys(
        Del(Del(Update(process_car(ending_car_info, other_keys),
                       [ending_time |-> prev_time,
                        to |-> <<ending_car_info.lat, ending_car_info.lng>>]),
                "coords"), "fuel"),
        other_keys)

end_unstarted_trip(prev_time, ending_car_info, other_keys) ==
    close_unstarted_trip(prev_time, process_car(ending_car_info, other_keys),
                         other_keys)

\* variant: only the latitude is compared
has_moved_lat_only(lat, lng, unfinished_parking) ==
    lat # unfinished_parking.coords[1]

\* variant: lng is compared with the first coordinate as well
has_moved_same_index(lat, lng, unfinished_parking) ==
    lat # unfinished_parking.coords[1] \/ lng # unfinished_parking.coords[1]

\* variant: every listed vehicle with an open parking counts as moved
has_moved_always(lat, lng, parking) == TRUE

\* the condition of the one-cycle-trip branch: lat or lng differs
has_moved(lat, lng, unfinished_parking) ==
    lat # unfinished_parking.coords[1] \/ lng # unfinished_parking.coords[2]

\* new_car_data[key] for key in OTHER_KEYS raises KeyError
process_car_raises(car_info, other_keys) ==
    ~(other_keys \subseteq DOMAIN extract_car_data(car_info))

\* process_car, or unfinished_trip[key] for key in OTHER_KEYS, raises
end_trip_raises(ending_car_info, unfinished_trip, other_keys) ==
    \/ process_car_raises(ending_car_info, other_keys)
    \/ ~(other_keys \subseteq DOMAIN unfinished_trip)

\* the body of "for car in available_cars" raises KeyError: in the branch
\* it takes, a dict lacks one of OTHER_KEYS
process_one_car_raises(car, vin, lat, lng, s, other_keys) ==
    IF ~Has(s.unfinished_parkings, vin) /\ ~Has(s.unfinished_trips, vin)
    THEN process_car_raises(car, other_keys)
    ELSE IF Has(s.unfinished_trips, vin)
    THEN end_trip_raises(car, s.unfinished_trips[vin], other_keys)
    ELSE /\ has_moved(lat, lng, s.unfinished_parkings[vin])
         /\ end_trip_raises(car, s.unfinished_parkings[vin], other_keys)

\* variant: a vehicle without an open parking counts as seen for the first
\* time, also when it has an open trip
first_observation_on_return(car, vin, s, data_time, other_keys) ==
    IF ~Has(s.unfinished_parkings, vin)
    THEN [s EXCEPT
            !.unstarted_potential_trips =
                Put(@, vin, end_unstarted_trip(data_time, car, other_keys)),
            !.unfinished_parkings =
                Put(@, vin, start_parking(data_time, car, other_keys))]
    ELSE s

\* "if vin not in unfinished_parkings and vin not in unfinished_trips":
\* the first time the car is seen; s holds the dicts of process_data
first_observation(car, vin, s, data_time, other_keys) ==
    IF ~Has(s.unfinished_parkings, vin) /\ ~Has(s.unfinished_trips, vin)
    THEN [s EXCEPT
            !.unstarted_potential_trips =
                Put(@, vin, end_unstarted_trip(data_time, car, other_keys)),
            !.unfinished_parkings =
                Put(@, vin, start_parking(data_time, car, other_keys))]
    ELSE s

\* variant: the parking at the new position is not opened
one_cycle_trip_keeps_parking(car, vin, s, finished_parking, data_time, prev_data_time, other_keys) ==
    [s EXCEPT
       !.finished_parkings = Put(@, vin, finished_parking),
       !.finished_trips =
           Put(@, vin,
               end_trip(data_time, car,
                        start_trip(prev_data_time, finished_parking),
                        other_keys))]

\* the one-cycle-trip branch once end_parking has produced finished_parking
one_cycle_trip(car, vin, s, finished_parking, data_time, prev_data_time, other_keys) ==
    [s EXCEPT
       !.finished_parkings = Put(@, vin, finished_parking),
       !.finished_trips =
           Put(@, vin,
               end_trip(data_time, car,
                        start_trip(prev_data_time, finished_parking),
                        other_keys)),
       !.unfinished_parkings =
           Put(@, vin, start_parking(data_time, car, other_keys))]

\* "if vin in unfinished_trips: ... elif vin in unfinished_parkings and ..."
trip_or_move(car, vin, lat, lng, s, data_time, prev_data_time, other_keys) ==
    IF Has(s.unfinished_trips, vin)
    THEN [s EXCEPT
            !.finished_trips =
                Put(@, vin, end_trip(data_time, car, s.unfinished_trips[vin],
                                     other_keys)),
            !.unfinished_trips = Del(@, vin),
            !.unfinished_parkings =
                Put(@, vin, start_parking(data_time, car, other_keys))]
    ELSE IF Has(s.unfinished_parkings, vin)
            /\ has_moved(lat, lng, s.unfinished_parkings[vin])
    THEN one_cycle_trip(car, vin, s,
                        end_parking(prev_data_time, s.unfinished_parkings[vin]),
                        data_time, prev_data_time, other_keys)
    ELSE s

\* variant: available_vins is assigned the id instead of being added to
process_one_car_resets_vins(car, s, data_time, prev_data_time, other_keys) ==
    trip_or_move(car, extract_car_basics(car)[1], extract_car_basics(car)[2],
                 extract_car_basics(car)[3],
                 first_observation(
                     car, extract_car_basics(car)[1],
                     [s EXCEPT !.available_vins = {extract_car_basics(car)[1]}],
                     data_time, other_keys),
                 data_time, prev_data_time, other_keys)

\* body of "for car in available_cars"
process_one_car(car, s, data_time, prev_data_time, other_keys) ==
    trip_or_move(car, extract_car_basics(car)[1], extract_car_basics(car)[2],
                 extract_car_basics(car)[3],
                 first_observation(
                     car, extract_car_basics(car)[1],
                     [s EXCEPT !.available_vins =
                                   @ \cup {extract_car_basics(car)[1]}],
                     data_time, other_keys),
                 data_time, prev_data_time, other_keys)

\* one iteration of "for car in available_cars"; an exception ends the loop
process_next_car(car, s, data_time, prev_data_time, other_keys) ==
    IF process_one_car_raises(car, extract_car_basics(car)[1],
                              extract_car_basics(car)[2],
                              extract_car_basics(car)[3], s, other_keys)
    THEN [s EXCEPT !.raised = TRUE]
    ELSE process_one_car(car, s, data_time, prev_data_time, other_keys)

RECURSIVE process_cars(_, _, _, _, _, _)
process_cars(available_cars, i, s, data_time, prev_data_time, other_keys) ==
    IF i > Len(available_cars) \/ s.raised THEN s
    ELSE process_cars(available_cars, i + 1,
                      process_next_car(available_cars[i], s, data_time,
                                       prev_data_time, other_keys),
                      data_time, prev_data_time, other_keys)

\* variant: the finished parking of the vehicle is not put in the results
trip_started_drops_parking(vin, s, finished_parking, prev_data_time) ==
    [s EXCEPT
       !.unfinished_parkings = Del(@, vin),
       !.unfinished_trips =
           Put(@, vin, start_trip(prev_data_time, finished_parking))]

\* the trip of a vehicle that became unavailable, given its finished parking
trip_started(vin, s, finished_parking, prev_data_time) ==
    [s EXCEPT
       !.finished_parkings = Put(@, vin, finished_parking),
       !.unfinished_parkings = Del(@, vin),
       !.unfinished_trips =
           Put(@, vin, start_trip(prev_data_time, finished_parking))]

\* variant: the vehicle is not deleted from unfinished_parkings
process_unavailable_keeps_parking(vin, s, prev_data_time) ==
    [s EXCEPT
       !.finished_parkings =
           Put(@, vin, end_parking(prev_data_time, s.unfinished_parkings[vin])),
       !.unfinished_trips =
           Put(@, vin,
               start_trip(prev_data_time,
                          end_parking(prev_data_time,
                                      s.unfinished_parkings[vin])))]

\* body of "for vin in vins_that_just_became_unavailable"
process_unavailable(vin, s, prev_data_time) ==
    trip_started(vin, s,
                 end_parking(prev_data_time, s.unfinished_parkings[vin]),
                 prev_data_time)

\* "for vin in vins_that_just_became_unavailable": the iterations touch
\* different keys, so the order of the set does not matter
RECURSIVE process_unavailables(_, _, _)
process_unavailables(vins, s, prev_data_time) ==
    IF vins = {} THEN s
    ELSE process_unavailables(
             vins \ {CHOOSE v \in vins : TRUE},
             process_unavailable(CHOOSE v \in vins : TRUE, s, prev_data_time),
             prev_data_time)

just_became_unavailable(unf_parkings, available_vins) ==
    (DOMAIN unf_parkings) \ available_vins

\* the second loop of process_data, on the dicts s left by the first loop
start_trips(s, prev_data_time) ==
    IF s.raised THEN s
    ELSE process_unavailables(
             just_became_unavailable(s.unfinished_parkings, s.available_vins),
             s, prev_data_time)

process_data(data_time, prev_data_time, new_availability_json, unf_trips, unf_parkings) ==
    start_trips(
        process_cars(get_cars_from_json(new_availability_json), 1,
                     [unstarted_potential_trips |-> EmptyDict,
                      finished_trips |-> EmptyDict,
                      finished_parkings |-> EmptyDict,
                      unfinished_trips |-> unf_trips,
                      unfinished_parkings |-> unf_parkings,
                      available_vins |-> {},
                      raised |-> FALSE],
                     data_time, prev_data_time,
                     OTHER_KEYS(get_cars_from_json(new_availability_json))),
        prev_data_time)

(***************************************************************************)
(* The input: what the location holds for each timestamp.                  *)
(***************************************************************************)
Wide == [name |-> "wide", vins |-> {"v1", "v2"},
         coords |-> {<<49, 11>>, <<49, 12>>}, fuels |-> {80},
         chargings |-> {FALSE}, ncycles |-> MaxCyclesWide,
         time_steps |-> {60},
         ends |-> {[req |-> -1, last |-> MaxCyclesWide - 1]},
         keysets |-> {{"charging"}}, duplicates |-> FALSE,
         systems |-> {"drivenow"}, locations |-> {"directory"}]

Rich == [name |-> "rich", vins |-> {"v1"},
         coords |-> {<<49, 11>>, <<50, 11>>}, fuels |-> {80, 70},
         chargings |-> {FALSE, TRUE}, ncycles |-> MaxCyclesRich,
         time_steps |-> {60, 300},
         ends |-> {[req |-> -1, last |-> MaxCyclesRich - 1],
                   [req |-> 1, last |-> MaxCyclesRich - 1],
                   [req |-> MaxCyclesRich, last |-> MaxCyclesRich - 1],
                   [req |-> -1, last |-> -1]},
         keysets |-> {{"charging"}}, duplicates |-> FALSE,
         systems |-> {"drivenow", "nosuchsystem"},
         locations |-> {"directory", "tar", "zip"}]

Long == [name |-> "long", vins |-> {"v1"},
         coords |-> {<<49, 11>>}, fuels |-> {80},
         chargings |-> {FALSE}, ncycles |-> MaxCyclesLong,
         time_steps |-> {60},
         ends |-> {[req |-> -1, last |-> MaxCyclesLong - 1]},
         keysets |-> {{"charging"}}, duplicates |-> FALSE,
         systems |-> {"drivenow"}, locations |-> {"directory"}]

Shapes == {Wide, Rich, Long}

\* a provider that breaks the contract: a snapshot can list an id twice
Dup == [name |-> "dup", vins |-> {"v1"},
        coords |-> {<<49, 11>>, <<50, 11>>}, fuels |-> {80},
        chargings |-> {FALSE}, ncycles |-> MaxCyclesDup,
        time_steps |-> {60},
        ends |-> {[req |-> -1, last |-> MaxCyclesDup - 1]},
        keysets |-> {{"charging"}}, duplicates |-> TRUE,
        systems |-> {"drivenow"}, locations |-> {"directory"}]

\* a provider that breaks the contract: the records of its snapshots do
\* not all have the same keys
Keys == [name |-> "keys", vins |-> {"v1", "v2"},
         coords |-> {<<49, 11>>}, fuels |-> {80},
         chargings |-> {FALSE}, ncycles |-> MaxCyclesKeys,
         time_steps |-> {60},
         ends |-> {[req |-> -1, last |-> MaxCyclesKeys - 1]},
         keysets |-> {{}, {"charging"}}, duplicates |-> FALSE,
         systems |-> {"drivenow"}, locations |-> {"directory"}]

\* a vehicle record with the keys the provider sends
CarRecord(v, c, f, ch, keys) ==
    [k \in {"vin", "lat", "lng", "fuel", "name"} \cup keys |->
        CASE k = "vin"  -> v
          [] k = "lat"  -> c[1]
          [] k = "lng"  -> c[2]
          [] k = "fuel" -> f
          [] k = "name" -> v
          [] OTHER      -> ch]

\* the vehicle records a provider can list
Cars(shape) ==
    {CarRecord(v, c, f, ch, keys) :
        v \in shape.vins, c \in shape.coords, f \in shape.fuels,
        ch \in shape.chargings, keys \in shape.keysets}

\* the longest list of a shape: every id once, or one more with duplicates
MaxListed(shape) ==
    Cardinality(shape.vins) + (IF shape.duplicates THEN 1 ELSE 0)

\* lists of vehicle records in any order; every id at most once unless the
\* shape is one of a provider that breaks the contract
Snapshots(shape) ==
    {s \in UNION {[1..k -> Cars(shape)] : k \in 0..MaxListed(shape)} :
        \/ shape.duplicates
        \/ \A i, j \in 1..Len(s) : i # j => s[i].vin # s[j].vin}

\* a file that holds a JSON document whose value is true in a condition
GoodFiles(shape) ==
    {[kind |-> "json", json |-> [py |-> "dict", placemarks |-> s]] :
        s \in Snapshots(shape)}

\* no file (or archive member), one that cannot be read, one that is not
\* JSON, and one whose JSON value is false in a condition (an empty object)
BadFiles ==
    {[kind |-> "absent"], [kind |-> "unreadable"], [kind |-> "malformed"],
     [kind |-> "json", json |-> [py |-> "dict"]]}

(***************************************************************************)
(* batch_load_data                                                         *)
(***************************************************************************)
\* an exception that leaves the loader
Raise == [py |-> "raise"]

load_data_from_file(file) ==
    CASE file.kind \in {"absent", "unreadable"} -> False   \* IOError
      [] file.kind = "malformed"                -> False   \* ValueError
      [] OTHER                                  -> file.json

\* the tar loader without its inner "except ValueError"
load_data_from_tar_uncaught(file) ==
    CASE file.kind = "absent"     -> False
      [] file.kind = "malformed"  -> Raise
      [] file.kind = "unreadable" -> Raise
      [] OTHER                    -> file.json

\* only KeyError and ValueError are caught: what extractfile or the read
\* raises for a member that is there but cannot be read leaves the loader
load_data_from_tar(file) ==
    CASE file.kind = "absent"     -> False                 \* KeyError
      [] file.kind = "malformed"  -> False                 \* ValueError
      [] file.kind = "unreadable" -> Raise
      [] OTHER                    -> file.json

\* "data = load_data_point(city, t, location)" with the loader chosen
load(loader, file) ==
    IF loader = "load_data_from_tar" THEN load_data_from_tar(file)
    ELSE load_data_from_file(file)

\* the new record is put in front of the list instead of at its end
AppendAll_prepends(finished, new) ==
    [vin \in (DOMAIN finished) \cup (DOMAIN new) |->
        IF vin \in DOMAIN new
        THEN <<new[vin]>>
                 \o (IF vin \in DOMAIN finished THEN finished[vin] ELSE << >>)
        ELSE finished[vin]]

\* finished[vin].append(new[vin]) for vin in new, finished a defaultdict(list)
AppendAll(finished, new) ==
    [vin \in (DOMAIN finished) \cup (DOMAIN new) |->
        IF vin \in DOMAIN new
        THEN (IF vin \in DOMAIN finished THEN finished[vin] ELSE << >>)
                 \o <<new[vin]>>
        ELSE finished[vin]]

\* the ids of a list of vehicle records
VinsOf(cars) == {cars[i].vin : i \in 1..Len(cars)}

\* the ids listed in a loaded document
ListedVins(d) == IF Truthy(d) THEN VinsOf(get_cars_from_json(d)) ELSE {}

\* variant: "prev_t = t" comes after the step of t
take_results_after_step(s, r) ==
    [s EXCEPT
       !.new_finished_trips = r.finished_trips,
       !.new_finished_parkings = r.finished_parkings,
       !.unstarted_trips_this_round = r.unstarted_potential_trips,
       !.unfinished_trips = r.unfinished_trips,
       !.unfinished_parkings = r.unfinished_parkings,
       !.unstarted_trips = Update(@, r.unstarted_potential_trips),
       !.finished_parkings = AppendAll(@, r.finished_parkings),
       !.finished_trips = AppendAll(@, r.finished_trips),
       !.prev_t = s.t + s.time_step]

\* variant: prev_t is left as it is
take_results_keeps_prev_t(s, r) ==
    [s EXCEPT
       !.new_finished_trips = r.finished_trips,
       !.new_finished_parkings = r.finished_parkings,
       !.unstarted_trips_this_round = r.unstarted_potential_trips,
       !.unfinished_trips = r.unfinished_trips,
       !.unfinished_parkings = r.unfinished_parkings,
       !.unstarted_trips = Update(@, r.unstarted_potential_trips),
       !.finished_parkings = AppendAll(@, r.finished_parkings),
       !.finished_trips = AppendAll(@, r.finished_trips)]

\* "update data dictionaries" and "prev_t = t", on the results r of
\* process_data
take_results(s, r) ==
    [s EXCEPT
       !.new_finished_trips = r.finished_trips,
       !.new_finished_parkings = r.finished_parkings,
       !.unstarted_trips_this_round = r.unstarted_potential_trips,
       !.unfinished_trips = r.unfinished_trips,
       !.unfinished_parkings = r.unfinished_parkings,
       !.unstarted_trips = Update(@, r.unstarted_potential_trips),
       !.finished_parkings = AppendAll(@, r.finished_parkings),
       !.finished_trips = AppendAll(@, r.finished_trips),
       !.prev_t = s.t]

\* the call of process_data returned r, or an exception left it
returned_or_raised(s, r) ==
    IF r.raised THEN [s EXCEPT !.raised = TRUE] ELSE take_results(s, r)

\* "if data:" branch: process the snapshot and take over its results
process_cycle(s, d) ==
    returned_or_raised(s, process_data(s.t, s.prev_t, d, s.unfinished_trips,
                                       s.unfinished_parkings))

\* variant: prev_t follows t also when the data point is missing
report_missing_advances(s) ==
    [s EXCEPT !.missing_data_points = Append(@, s.t), !.prev_t = s.t]

\* variant: the time reported is that of the next data point
report_missing_next(s) ==
    [s EXCEPT !.missing_data_points = Append(@, s.t + s.time_step)]

\* "else:" branch: report the data point as missing
report_missing(s) ==
    [s EXCEPT !.missing_data_points = Append(@, s.t)]

\* variant: a document that lists no vehicle is reported as missing
handle_data_skips_empty(s, d) ==
    IF d = Raise THEN [s EXCEPT !.raised = TRUE]
    ELSE [(IF Truthy(d) /\ ListedVins(d) # {}
           THEN process_cycle(s, d) ELSE report_missing(s))
            EXCEPT !.data = d, !.t = s.t + s.time_step]

\* "data = ...", "if data: ... else: ..." and "t += timedelta(...)"; when
\* the loader raises, nothing is assigned
handle_data(s, d) ==
    IF d = Raise THEN [s EXCEPT !.raised = TRUE]
    ELSE [(IF Truthy(d) THEN process_cycle(s, d) ELSE report_missing(s))
            EXCEPT !.data = d, !.t = s.t + s.time_step]

\* one iteration of "while t <= ending_time" on the loop's variables s
LoopBody(s, loader, file) == handle_data(s, load(loader, file))

\* variant: prev_t starts one time step before the starting time
LoopStart_prev_earlier(start, step) ==
    [t |-> start, prev_t |-> start - step, time_step |-> step,
     unfinished_trips |-> EmptyDict,
     unfinished_parkings |-> EmptyDict,
     unstarted_trips |-> EmptyDict,
     finished_trips |-> EmptyDict,
     finished_parkings |-> EmptyDict,
     missing_data_points |-> << >>,
     data |-> None,
     new_finished_trips |-> EmptyDict,
     new_finished_parkings |-> EmptyDict,
     unstarted_trips_this_round |-> EmptyDict,
     raised |-> FALSE]

\* the variables of the loop before its first iteration
LoopStart(start, step) ==
    [t |-> start, prev_t |-> start, time_step |-> step,
     unfinished_trips |-> EmptyDict,
     unfinished_parkings |-> EmptyDict,
     unstarted_trips |-> EmptyDict,
     finished_trips |-> EmptyDict,
     finished_parkings |-> EmptyDict,
     missing_data_points |-> << >>,
     data |-> None,
     new_finished_trips |-> EmptyDict,
     new_finished_parkings |-> EmptyDict,
     unstarted_trips_this_round |-> EmptyDict,
     raised |-> FALSE]

\* the loop run to its end, or to an exception, over the files of a location
RECURSIVE RunLoop(_, _, _, _)
RunLoop(s, loader, files, end) ==
    IF s.t <= end /\ ~s.raised
    THEN RunLoop(LoopBody(s, loader, files[s.t]), loader, files, end)
    ELSE s

\* the variables of the loop as one value
Loop ==
    [t |-> t, prev_t |-> prev_t, time_step |-> time_step,
     unfinished_trips |-> unfinished_trips,
     unfinished_parkings |-> unfinished_parkings,
     unstarted_trips |-> unstarted_trips,
     finished_trips |-> finished_trips,
     finished_parkings |-> finished_parkings,
     missing_data_points |-> missing_data_points,
     data |-> data,
     new_finished_trips |-> new_finished_trips,
     new_finished_parkings |-> new_finished_parkings,
     unstarted_trips_this_round |-> unstarted_trips_this_round,
     raised |-> FALSE]

\* the variables of the batch_load_data of src/normalize.py
OldVars == <<old_i, max_files, max_skip, skipped, potentially_missing>>

\* what batch_load_data has no access to: the state of src/process.py, and
\* the object store that is only kept where identity matters
Untouched == <<heap, file_dir, saved_data, trips_by_vin, data_frames, all_trips>>

Params == <<cfg, system, location, archive, starting_time, ending_time,
            time_step, last_file_time, requested_ending_time,
            load_data_point, OldVars>>

\* the loop variables hold the values they are given before the loop
AtLoopStart(s0) ==
    /\ t = s0.t
    /\ prev_t = s0.prev_t
    /\ unfinished_trips = s0.unfinished_trips
    /\ unfinished_parkings = s0.unfinished_parkings
    /\ unstarted_trips = s0.unstarted_trips
    /\ finished_trips = s0.finished_trips
    /\ finished_parkings = s0.finished_parkings
    /\ missing_data_points = s0.missing_data_points
    /\ data = s0.data
    /\ new_finished_trips = s0.new_finished_trips
    /\ new_finished_parkings = s0.new_finished_parkings
    /\ unstarted_trips_this_round = s0.unstarted_trips_this_round
    /\ history = << >>
    /\ result = None
    /\ pc = "start"

\* the call batch_load_data(system, city, location, starting_time,
\* ending_time, time_step) on a location whose last file is last_file_time
InitShape(shape) ==
    /\ cfg = shape
    /\ system \in shape.systems
    /\ location \in shape.locations
    /\ archive = "none"
    /\ load_data_point = "unbound"
    /\ heap = << >>
    /\ file_dir = None /\ saved_data = None /\ trips_by_vin = None
    /\ data_frames = None /\ all_trips = None
    /\ starting_time = 3600
    /\ time_step \in shape.time_steps
    /\ \E e \in shape.ends :
          /\ last_file_time = starting_time + e.last * time_step
          /\ requested_ending_time =
                IF e.req < 0 THEN None
                ELSE [py |-> "datetime",
                      time |-> starting_time + e.req * time_step]
    /\ ending_time = requested_ending_time
    /\ old_i = None /\ max_files = None /\ max_skip = None
    /\ skipped = None /\ potentially_missing = None
    /\ AtLoopStart(LoopStart(starting_time, time_step))

Init == \E shape \in Shapes : InitShape(shape)

\* the systems that have a parser
KnownSystems == {"drivenow"}

\* variant: an ending_time that is given is used as it is
clamp_ending_time_as_given(requested, last) ==
    IF requested = None THEN last ELSE requested.time

\* "if not ending_time or ending_time > last_file_time"
clamp_ending_time(requested, last) ==
    IF requested = None \/ requested.time > last THEN last
    ELSE requested.time

\* the function up to the loop: the parser, the loader for the location,
\* the time of the last data point and the ending time
Start ==
    /\ pc = "start"
    /\ cfg.name # "old"
    /\ IF system \notin KnownSystems
       THEN \* ImportError: sys.exit('unsupported system ...')
            /\ pc' = "exit"
            /\ UNCHANGED <<archive, load_data_point, ending_time>>
       ELSE IF location = "tar"
       THEN /\ load_data_point' = "load_data_from_tar"
            /\ archive' = "open"
            /\ ending_time' = clamp_ending_time(ending_time, last_file_time)
            /\ pc' = "loop"
       ELSE IF location = "directory"
       THEN /\ load_data_point' = "load_data_from_file"
            /\ ending_time' = clamp_ending_time(ending_time, last_file_time)
            /\ pc' = "loop"
            /\ UNCHANGED archive
       ELSE \* not a tar archive, so taken as a directory: the glob under
            \* a zip file matches nothing and max() of nothing raises
            /\ load_data_point' = "load_data_from_file"
            /\ pc' = "raised"
            /\ UNCHANGED <<archive, ending_time>>
    /\ UNCHANGED <<cfg, system, location, starting_time, time_step,
                   last_file_time, requested_ending_time, OldVars, t, prev_t,
                   unfinished_trips, unfinished_parkings, unstarted_trips,
                   finished_trips, finished_parkings, missing_data_points,
                   data, new_finished_trips, new_finished_parkings,
                   unstarted_trips_this_round, history, result>>
    /\ UNCHANGED Untouched

\* the loop's variables take the values n of a finished iteration
Assign(n) ==
    /\ t' = n.t
    /\ prev_t' = n.prev_t
    /\ unfinished_trips' = n.unfinished_trips
    /\ unfinished_parkings' = n.unfinished_parkings
    /\ unstarted_trips' = n.unstarted_trips
    /\ finished_trips' = n.finished_trips
    /\ finished_parkings' = n.finished_parkings
    /\ missing_data_points' = n.missing_data_points
    /\ data' = n.data
    /\ new_finished_trips' = n.new_finished_trips
    /\ new_finished_parkings' = n.new_finished_parkings
    /\ unstarted_trips_this_round' = n.unstarted_trips_this_round
    /\ history' = Append(history, [t |-> t, ok |-> Truthy(n.data),
                                   vins |-> ListedVins(n.data)])
    /\ pc' = pc

\* an exception leaves the iteration and batch_load_data: data holds what
\* was loaded, if the load itself did not raise, and nothing is returned
Abort(n) ==
    /\ pc' = "raised"
    /\ data' = n.data
    /\ UNCHANGED <<t, prev_t, unfinished_trips, unfinished_parkings,
                   unstarted_trips, finished_trips, finished_parkings,
                   missing_data_points, new_finished_trips,
                   new_finished_parkings, unstarted_trips_this_round,
                   history>>

\* the iteration ends with the values n, or with an exception
AssignOrAbort(n) == IF n.raised THEN Abort(n) ELSE Assign(n)

Iterate(file) ==
    /\ pc = "loop"
    /\ t <= ending_time
    /\ AssignOrAbort(LoopBody(Loop, load_data_point, file))
    /\ UNCHANGED <<Params, result>>
    /\ UNCHANGED Untouched

\* an iteration whose file holds a usable document
CycleData == \E file \in GoodFiles(cfg) : Iterate(file)

\* an iteration whose file is absent, unreadable, malformed or empty
CycleMissing == \E file \in BadFiles : Iterate(file)

\* the handle of the archive when batch_load_data is left by return: no
\* statement closes it; nothing refers to it any more, and the interpreter
\* may have finalised it by then or not
left_behind(handle) ==
    IF handle = "open" THEN {"open", "closed"} ELSE {handle}

\* the loop is over: build the result
Return ==
    /\ pc = "loop"
    /\ ~(t <= ending_time)
    /\ archive' \in left_behind(archive)
    /\ result' = [finished_trips |-> finished_trips,
                  finished_parkings |-> finished_parkings,
                  unfinished_trips |-> unfinished_trips,
                  unfinished_parkings |-> unfinished_parkings,
                  unstarted_trips |-> unstarted_trips,
                  metadata |-> [starting_time |-> starting_time,
                                ending_time |-> prev_t,
                                time_step |-> time_step,
                                missing |-> missing_data_points]]
    /\ pc' = "done"
    /\ UNCHANGED <<cfg, system, location, starting_time, ending_time,
                   time_step, last_file_time, requested_ending_time,
                   load_data_point, OldVars, t, prev_t, unfinished_trips,
                   unfinished_parkings, unstarted_trips, finished_trips,
                   finished_parkings, missing_data_points, data,
                   new_finished_trips, new_finished_parkings,
                   unstarted_trips_this_round, history>>
    /\ UNCHANGED Untouched

Next == Start \/ CycleData \/ CycleMissing \/ Return

Spec == Init /\ [][Next]_vars

(***************************************************************************)
(* src/normalize.py: the process_data and batch_load_data that take        *)
(* max_files and max_skip.  process_data differs from the one above in     *)
(* start_trip, which leaves the parking's ending_time in the trip, and in  *)
(* looking the parser up on every call.                                    *)
(***************************************************************************)
old_start_trip(curr_time, starting_car_info) ==
    Del(Del(Update(starting_car_info,
                   [from |-> starting_car_info.coords,
                    starting_time |-> curr_time,
                    starting_fuel |-> starting_car_info.fuel]),
            "coords"), "fuel")

old_one_cycle_trip(car, vin, s, finished_parking, data_time, prev_data_time, other_keys) ==
    [s EXCEPT
       !.finished_parkings = Put(@, vin, finished_parking),
       !.finished_trips =
           Put(@, vin,
               end_trip(data_time, car,
                        old_start_trip(prev_data_time, finished_parking),
                        other_keys)),
       !.unfinished_parkings =
           Put(@, vin, start_parking(data_time, car, other_keys))]

old_trip_or_move(car, vin, lat, lng, s, data_time, prev_data_time, other_keys) ==
    IF Has(s.unfinished_trips, vin)
    THEN [s EXCEPT
            !.finished_trips =
                Put(@, vin, end_trip(data_time, car, s.unfinished_trips[vin],
                                     other_keys)),
            !.unfinished_trips = Del(@, vin),
            !.unfinished_parkings =
                Put(@, vin, start_parking(data_time, car, other_keys))]
    ELSE IF Has(s.unfinished_parkings, vin)
            /\ has_moved(lat, lng, s.unfinished_parkings[vin])
    THEN old_one_cycle_trip(car, vin, s,
                            end_parking(prev_data_time,
                                        s.unfinished_parkings[vin]),
                            data_time, prev_data_time, other_keys)
    ELSE s

old_process_one_car(car, s, data_time, prev_data_time, other_keys) ==
    old_trip_or_move(car, extract_car_basics(car)[1],
                     extract_car_basics(car)[2], extract_car_basics(car)[3],
                     first_observation(
                         car, extract_car_basics(car)[1],
                         [s EXCEPT !.available_vins =
                                       @ \cup {extract_car_basics(car)[1]}],
                         data_time, other_keys),
                     data_time, prev_data_time, other_keys)

old_process_next_car(car, s, data_time, prev_data_time, other_keys) ==
    IF process_one_car_raises(car, extract_car_basics(car)[1],
                              extract_car_basics(car)[2],
                              extract_car_basics(car)[3], s, other_keys)
    THEN [s EXCEPT !.raised = TRUE]
    ELSE old_process_one_car(car, s, data_time, prev_data_time, other_keys)

RECURSIVE old_process_cars(_, _, _, _, _, _)
old_process_cars(available_cars, k, s, data_time, prev_data_time, other_keys) ==
    IF k > Len(available_cars) \/ s.raised THEN s
    ELSE old_process_cars(available_cars, k + 1,
                          old_process_next_car(available_cars[k], s,
                                               data_time, prev_data_time,
                                               other_keys),
                          data_time, prev_data_time, other_keys)

old_trip_started(vin, s, finished_parking, prev_data_time) ==
    [s EXCEPT
       !.finished_parkings = Put(@, vin, finished_parking),
       !.unfinished_parkings = Del(@, vin),
       !.unfinished_trips =
           Put(@, vin, old_start_trip(prev_data_time, finished_parking))]

old_process_unavailable(vin, s, prev_data_time) ==
    old_trip_started(vin, s,
                     end_parking(prev_data_time, s.unfinished_parkings[vin]),
                     prev_data_time)

RECURSIVE old_process_unavailables(_, _, _)
old_process_unavailables(vins, s, prev_data_time) ==
    IF vins = {} THEN s
    ELSE old_process_unavailables(
             vins \ {CHOOSE v \in vins : TRUE},
             old_process_unavailable(CHOOSE v \in vins : TRUE, s,
                                     prev_data_time),
             prev_data_time)

old_start_trips(s, prev_data_time) ==
    IF s.raised THEN s
    ELSE old_process_unavailables(
             just_became_unavailable(s.unfinished_parkings, s.available_vins),
             s, prev_data_time)

\* process_data once the parser is found, on the list of cars it extracts
old_process_data(data_time, prev_data_time, available_cars, unf_trips, unf_parkings) ==
    old_start_trips(
        old_process_cars(available_cars, 1,
                         [unstarted_potential_trips |-> EmptyDict,
                          finished_trips |-> EmptyDict,
                          finished_parkings |-> EmptyDict,
                          unfinished_trips |-> unf_trips,
                          unfinished_parkings |-> unf_parkings,
                          available_vins |-> {},
                          raised |-> FALSE],
                         data_time, prev_data_time,
                         OTHER_KEYS(available_cars)),
        prev_data_time)

\* the bare "except:" returns False for whatever goes wrong
load_file(file) == IF file.kind = "json" THEN file.json ELSE False

\* a Python int
PyInt(n) == [py |-> "int", value |-> n]

Old == [name |-> "old", vins |-> {"v1"},
        coords |-> {<<49, 11>>, <<50, 11>>}, fuels |-> {80},
        chargings |-> {FALSE}, ncycles |-> MaxCyclesOld,
        time_steps |-> {1, 5},
        ends |-> {[req |-> -1, last |-> MaxCyclesOld - 1],
                  [req |-> -1, last |-> -1]},
        keysets |-> {{"charging"}}, duplicates |-> FALSE,
        systems |-> {"drivenow", "nosuchsystem"},
        locations |-> {"directory"},
        max_files |-> {False, PyInt(2)},
        max_skip |-> {0, 1, 2}]

\* the call batch_load_data(system, city, file_dir, starting_time,
\* time_step, max_files, max_skip) and lines 220-232; time_step is minutes
InitOld ==
    /\ cfg = Old
    /\ system \in Old.systems
    /\ location \in Old.locations
    /\ archive = "none"
    /\ load_data_point = "load_file"
    /\ heap = << >>
    /\ file_dir = None /\ saved_data = None /\ trips_by_vin = None
    /\ data_frames = None /\ all_trips = None
    /\ starting_time = 3600
    /\ time_step \in Old.time_steps
    /\ \E e \in Old.ends :
          last_file_time = starting_time + e.last * time_step * 60
    /\ requested_ending_time = None
    /\ ending_time = None
    /\ old_i = 1
    /\ max_files \in Old.max_files
    /\ max_skip \in Old.max_skip
    /\ skipped = None
    /\ potentially_missing = None
    /\ AtLoopStart(LoopStart(starting_time, time_step))

\* what the directory holds for a time: nothing after the last file
OldFilesAt(time) ==
    IF time <= last_file_time THEN GoodFiles(cfg) \cup BadFiles
    ELSE {[kind |-> "absent"]}

\* "json_data = load_file(filepath)" of the first file
OldLoadFirst ==
    /\ pc = "start"
    /\ cfg.name = "old"
    /\ \E file \in OldFilesAt(t) : data' = load_file(file)
    /\ pc' = "old_while"
    /\ UNCHANGED <<Params, t, prev_t, unfinished_trips, unfinished_parkings,
                   unstarted_trips, finished_trips, finished_parkings,
                   missing_data_points, new_finished_trips,
                   new_finished_parkings, unstarted_trips_this_round,
                   history, result>>
    /\ UNCHANGED Untouched

\* variant: the limit lets one more file through
OldWhileCond_one_more ==
    /\ data # False
    /\ (IF max_files = False THEN TRUE ELSE old_i <= max_files.value + 1)

\* "json_data != False and (max_files is False or i <= max_files)"
OldWhileCond ==
    /\ data # False
    /\ (IF max_files = False THEN TRUE ELSE old_i <= max_files.value)

\* the lists of cars the parser can extract from a document: its list, and
\* for a document without one either no car or an exception (raised)
old_available_cars(d) ==
    IF Truthy(d) THEN {[raised |-> FALSE, cars |-> get_cars_from_json(d)]}
    ELSE {[raised |-> FALSE, cars |-> << >>], [raised |-> TRUE]}

\* the call of process_data in the loop: the parser lookup fails for an
\* unknown system, the parser may fail on the document, and otherwise the
\* results are taken over and prev_t follows t
old_process_cycle(s, sys, extracted) ==
    IF sys \notin KnownSystems \/ extracted.raised
    THEN [s EXCEPT !.raised = TRUE]
    ELSE returned_or_raised(
             s, old_process_data(s.t, s.prev_t, extracted.cars,
                                 s.unfinished_trips, s.unfinished_parkings))

\* lines 240-265: the results are taken over, the skip loop is set up
OldAssign(n, listed) ==
    /\ prev_t' = n.prev_t
    /\ unfinished_trips' = n.unfinished_trips
    /\ unfinished_parkings' = n.unfinished_parkings
    /\ unstarted_trips' = n.unstarted_trips
    /\ finished_trips' = n.finished_trips
    /\ finished_parkings' = n.finished_parkings
    /\ new_finished_trips' = n.new_finished_trips
    /\ new_finished_parkings' = n.new_finished_parkings
    /\ unstarted_trips_this_round' = n.unstarted_trips_this_round
    /\ skipped' = -1
    /\ potentially_missing' = << >>
    /\ history' = Append(history, [t |-> t, ok |-> TRUE,
                                   vins |-> VinsOf(listed)])
    /\ pc' = "old_skip"

\* an exception leaves process_data and batch_load_data
OldAbort ==
    /\ pc' = "raised"
    /\ UNCHANGED <<prev_t, unfinished_trips, unfinished_parkings,
                   unstarted_trips, finished_trips, finished_parkings,
                   new_finished_trips, new_finished_parkings,
                   unstarted_trips_this_round, skipped, potentially_missing,
                   history>>

OldAssignOrAbort(n, extracted) ==
    IF n.raised THEN OldAbort ELSE OldAssign(n, extracted.cars)

\* one pass of the outer while loop up to the skip loop
OldProcess ==
    /\ pc = "old_while"
    /\ OldWhileCond
    /\ \E extracted \in old_available_cars(data) :
          OldAssignOrAbort(old_process_cycle(Loop, system, extracted),
                           extracted)
    /\ UNCHANGED <<cfg, system, location, archive, starting_time,
                   ending_time, time_step, last_file_time,
                   requested_ending_time, load_data_point, old_i, max_files,
                   max_skip, t, data, missing_data_points, result>>
    /\ UNCHANGED Untouched

\* variant: the skip loop goes on while skipped is at most max_skip
OldSkipCond_one_more ==
    /\ skipped <= max_skip
    /\ (skipped = -1 \/ ~Truthy(data))

\* "skipped < max_skip and (skipped == -1 or not json_data)"
OldSkipCond ==
    /\ skipped < max_skip
    /\ (skipped = -1 \/ ~Truthy(data))

\* variant: a file found missing is not noted
OldSkipped_forgets(loaded) ==
    /\ data' = loaded
    /\ IF ~Truthy(loaded)
       THEN /\ potentially_missing' = potentially_missing
            /\ skipped' = IF skipped > 0 THEN skipped + 1 ELSE 1
            /\ history' = Append(history, [t |-> t', ok |-> FALSE,
                                           vins |-> {}])
       ELSE /\ skipped' = max_skip
            /\ UNCHANGED <<potentially_missing, history>>

\* the body of the skip loop once the next file is loaded
OldSkipped(loaded) ==
    /\ data' = loaded
    /\ IF ~Truthy(loaded)
       THEN /\ potentially_missing' = Append(potentially_missing, t')
            /\ skipped' = IF skipped > 0 THEN skipped + 1 ELSE 1
            /\ history' = Append(history, [t |-> t', ok |-> FALSE,
                                           vins |-> {}])
       ELSE /\ skipped' = max_skip
            /\ UNCHANGED <<potentially_missing, history>>

\* one pass of the skip loop: the next file is looked for and loaded
OldSkip ==
    /\ pc = "old_skip"
    /\ OldSkipCond
    /\ old_i' = old_i + 1
    /\ t' = t + time_step * 60
    /\ \E file \in OldFilesAt(t') : OldSkipped(load_file(file))
    /\ UNCHANGED <<cfg, system, location, archive, starting_time,
                   ending_time, time_step, last_file_time,
                   requested_ending_time, load_data_point, max_files,
                   max_skip, prev_t, unfinished_trips, unfinished_parkings,
                   unstarted_trips, finished_trips, finished_parkings,
                   missing_data_points, new_finished_trips,
                   new_finished_parkings, unstarted_trips_this_round,
                   result, pc>>
    /\ UNCHANGED Untouched

\* the skip loop is over: "if json_data: missing_files.extend(...)"
OldSkipEnd ==
    /\ pc = "old_skip"
    /\ ~OldSkipCond
    /\ missing_data_points' =
          IF Truthy(data) THEN missing_data_points \o potentially_missing
          ELSE missing_data_points
    /\ pc' = "old_while"
    /\ UNCHANGED <<Params, t, prev_t, unfinished_trips, unfinished_parkings,
                   unstarted_trips, finished_trips, finished_parkings, data,
                   new_finished_trips, new_finished_parkings,
                   unstarted_trips_this_round, history, result>>
    /\ UNCHANGED Untouched

\* the outer loop is over: build the result
OldReturn ==
    /\ pc = "old_while"
    /\ ~OldWhileCond
    /\ result' = [finished_trips |-> finished_trips,
                  finished_parkings |-> finished_parkings,
                  unfinished_trips |-> unfinished_trips,
                  unfinished_parkings |-> unfinished_parkings,
                  unstarted_trips |-> unstarted_trips,
                  metadata |-> [starting_time |-> starting_time,
                                ending_time |-> prev_t,
                                time_step |-> time_step * 60,
                                missing |-> missing_data_points]]
    /\ pc' = "done"
    /\ UNCHANGED <<Params, t, prev_t, unfinished_trips, unfinished_parkings,
                   unstarted_trips, finished_trips, finished_parkings,
                   missing_data_points, data, new_finished_trips,
                   new_finished_parkings, unstarted_trips_this_round,
                   history>>
    /\ UNCHANGED Untouched

OldNext == OldLoadFirst \/ OldProcess \/ OldSkip \/ OldSkipEnd \/ OldReturn

\* both batch_load_data functions
InitDrivers == Init \/ InitOld

NextDrivers ==
    \/ Start \/ CycleData \/ CycleMissing \/ Return
    \/ OldLoadFirst \/ OldProcess \/ OldSkip \/ OldSkipEnd \/ OldReturn

SpecDrivers == InitDrivers /\ [][NextDrivers]_vars

\* batch_load_data on the files of a provider that can list an id twice
SpecDup == InitShape(Dup) /\ [][Next]_vars

\* batch_load_data on the files of a provider whose records differ in keys
SpecKeys == InitShape(Keys) /\ [][Next]_vars

(***************************************************************************)
(* Regeneration of the per-cycle snapshots from a result (generate): for   *)
(* every processed timestamp, the vehicles whose finished or open parking  *)
(* covers it, at the position, fuel and attributes the parking recorded.   *)
(***************************************************************************)
RECURSIVE SetToSeq(_)
SetToSeq(S) ==
    IF S = {} THEN << >>
    ELSE LET x == CHOOSE y \in S : TRUE IN <<x>> \o SetToSeq(S \ {x})

\* the parkings of a result, finished and open
AllParkings(res) ==
    UNION {{res.finished_parkings[v][i] :
                i \in 1..Len(res.finished_parkings[v])} :
           v \in DOMAIN res.finished_parkings}
      \cup {res.unfinished_parkings[v] : v \in DOMAIN res.unfinished_parkings}

Covers(parking, time) ==
    /\ parking.starting_time <= time
    /\ "ending_time" \in DOMAIN parking => time <= parking.ending_time

\* the vehicle record written for a parking
CarFromParking(parking) ==
    [k \in {"vin", "lat", "lng", "fuel"}
            \cup ((DOMAIN parking) \ {"vin", "coords", "fuel", "starting_time",
                                      "ending_time", "duration"}) |->
        CASE k = "vin"  -> parking.vin
          [] k = "lat"  -> parking.coords[1]
          [] k = "lng"  -> parking.coords[2]
          [] k = "fuel" -> parking.fuel
          [] OTHER      -> parking[k]]

\* the timestamps from the start to the last processed one
ResultTimes(res) ==
    {res.metadata.starting_time + k * res.metadata.time_step :
        k \in 0..((res.metadata.ending_time - res.metadata.starting_time)
                    \div res.metadata.time_step)}

IsMissing(res, time) ==
    \E i \in 1..Len(res.metadata.missing) : res.metadata.missing[i] = time

\* the files written for a result: one per processed timestamp
write_files(res) ==
    [time \in ResultTimes(res) |->
        IF IsMissing(res, time) THEN [kind |-> "absent"]
        ELSE [kind |-> "json",
              json |-> [py |-> "dict",
                        placemarks |->
                            SetToSeq({CarFromParking(p) :
                                        p \in {q \in AllParkings(res) :
                                                  Covers(q, time)}})]]]

\* batch_load_data over the files written for a result
Rerun(res) ==
    RunLoop(LoopStart(res.metadata.starting_time, res.metadata.time_step),
            "load_data_from_file", write_files(res), res.metadata.ending_time)

(***************************************************************************)
(* Vocabulary of the properties.                                           *)
(***************************************************************************)
\* the record of vehicle v in a loaded document that lists it
CarOf(d, v) ==
    LET cars == get_cars_from_json(d)
    IN  cars[CHOOSE i \in 1..Len(cars) : cars[i].vin = v]

CoordsOf(d, v) == <<CarOf(d, v).lat, CarOf(d, v).lng>>

\* this step is a loop iteration in which process_data was called
ProcessedStep == t' # t /\ Truthy(data')

\* this step is a loop iteration whose load returned False
FailedStep == t' # t /\ data' = False

\* this step is a loop iteration whose load raised
RaisedStep == pc = "loop" /\ pc' = "raised"

\* every vehicle listed in some processed snapshot so far
EverSeen == UNION {history[i].vins : i \in 1..Len(history)}

\* the list of a defaultdict(list)
ListOf(d, v) == IF v \in DOMAIN d THEN d[v] ELSE << >>

\* the iterations in which v was listed
SeenAt(h, v) == {i \in 1..Len(h) : v \in h[i].vins}

Max(S) == CHOOSE x \in S : \A y \in S : y <= x

Min(S) == CHOOSE x \in S : \A y \in S : x <= y

(***************************************************************************)
(* C1: after every call of process_data, every vehicle id that has ever    *)
(* been listed in a processed snapshot is a key of exactly one of          *)
(* unfinished_parkings and unfinished_trips, and the two maps share no key.*)
(***************************************************************************)
C1_ExactlyOneOpenMap ==
    /\ (DOMAIN unfinished_parkings) \cap (DOMAIN unfinished_trips) = {}
    /\ \A v \in EverSeen :
          v \in (DOMAIN unfinished_parkings) \cup (DOMAIN unfinished_trips)

\* one vehicle is parked and another one is on a trip, after a departure
C1_Witness ==
    /\ "v1" \in DOMAIN unfinished_trips
    /\ "v2" \in DOMAIN unfinished_parkings
    /\ EverSeen = {"v1", "v2"}
    /\ Len(history) >= 2

(***************************************************************************)
(* C2: one-cycle trip.  When v is listed at A in the snapshot processed at *)
(* t0 and at B # A in the snapshot processed at t0 + time_step, the second *)
(* cycle emits one finished parking at A ending at t0, one finished trip   *)
(* from A to B from t0 to t0 + time_step, and leaves v with an open        *)
(* parking at B that starts at t0 + time_step and with no open trip.       *)
(***************************************************************************)
C2_OneCycleTrip ==
    [][\A v \in cfg.vins :
        (/\ ProcessedStep
         /\ Truthy(data)
         /\ prev_t = t - time_step
         /\ v \in ListedVins(data)
         /\ v \in ListedVins(data')
         /\ CoordsOf(data', v) # CoordsOf(data, v))
        =>
        LET A == CoordsOf(data, v)
            B == CoordsOf(data', v)
            t0 == prev_t
        IN  /\ v \in DOMAIN new_finished_parkings'
            /\ new_finished_parkings'[v].coords = A
            /\ new_finished_parkings'[v].ending_time = t0
            /\ finished_parkings'[v] =
                  Append(ListOf(finished_parkings, v),
                         new_finished_parkings'[v])
            /\ v \in DOMAIN new_finished_trips'
            /\ new_finished_trips'[v].from = A
            /\ new_finished_trips'[v].to = B
            /\ new_finished_trips'[v].starting_time = t0
            /\ new_finished_trips'[v].ending_time = t0 + time_step
            /\ new_finished_trips'[v].duration = time_step
            /\ finished_trips'[v] =
                  Append(ListOf(finished_trips, v), new_finished_trips'[v])
            /\ v \in DOMAIN unfinished_parkings'
            /\ unfinished_parkings'[v].coords = B
            /\ unfinished_parkings'[v].starting_time = t0 + time_step
            /\ v \notin DOMAIN unfinished_trips']_vars

\* a vehicle parked for two cycles has moved within the last interval
C2_Witness ==
    /\ Len(history) >= 3
    /\ history[Len(history)].ok /\ history[Len(history) - 1].ok
    /\ "v1" \in history[Len(history) - 1].vins
    /\ "v1" \in DOMAIN new_finished_trips
    /\ "v1" \in DOMAIN new_finished_parkings
    /\ new_finished_parkings["v1"].duration > 0
    /\ new_finished_trips["v1"].duration = time_step
    /\ new_finished_trips["v1"].to # new_finished_trips["v1"].from
    /\ unfinished_parkings["v1"].coords = new_finished_trips["v1"].to

(***************************************************************************)
(* C3: disappearance.  When v holds an open parking at A and is not listed *)
(* in the snapshot processed at t1, that cycle emits a finished parking of *)
(* v at A ending at prev_data_time, which is the last processed cycle and  *)
(* one that listed v, removes v from unfinished_parkings and opens an      *)
(* unfinished trip of v starting at prev_data_time, not at t1.             *)
(***************************************************************************)
C3_Disappearance ==
    [][\A v \in cfg.vins :
        (/\ ProcessedStep
         /\ v \in DOMAIN unfinished_parkings
         /\ v \notin ListedVins(data'))
        =>
        /\ v \in DOMAIN new_finished_parkings'
        /\ new_finished_parkings'[v].coords = unfinished_parkings[v].coords
        /\ new_finished_parkings'[v].ending_time = prev_t
        /\ finished_parkings'[v] =
              Append(ListOf(finished_parkings, v), new_finished_parkings'[v])
        /\ prev_t < t
        /\ \E i \in SeenAt(history, v) :
              /\ history[i].t = prev_t
              /\ \A j \in (i + 1)..Len(history) : ~history[j].ok
        /\ v \notin DOMAIN unfinished_parkings'
        /\ v \in DOMAIN unfinished_trips'
        /\ unfinished_trips'[v].starting_time = prev_t
        /\ unfinished_trips'[v].from = unfinished_parkings[v].coords]_vars

\* a vehicle parked for a while, then a gap, then a snapshot without it
C3_Witness ==
    /\ Len(history) >= 3
    /\ history[Len(history)].ok
    /\ ~history[Len(history) - 1].ok
    /\ "v1" \in DOMAIN new_finished_parkings
    /\ "v1" \in DOMAIN unfinished_trips
    /\ "v1" \notin DOMAIN new_finished_trips
    /\ unfinished_trips["v1"].starting_time = prev_t - 2 * time_step
    /\ new_finished_parkings["v1"].duration > 0

(***************************************************************************)
(* C4: first observation.  When v is in neither open map and is listed at  *)
(* A with fuel F in the snapshot processed at t0, that cycle records an    *)
(* unstarted trip of v with ending_time t0, to A, ending_fuel F and no     *)
(* from, starting_time or starting_fuel, opens a parking of v at A that    *)
(* starts at t0, and emits no finished trip and no finished parking of v.  *)
(***************************************************************************)
C4_FirstObservation ==
    [][\A v \in cfg.vins :
        (/\ ProcessedStep
         /\ v \notin DOMAIN unfinished_parkings
         /\ v \notin DOMAIN unfinished_trips
         /\ v \in ListedVins(data'))
        =>
        LET A == CoordsOf(data', v)
            F == CarOf(data', v).fuel
            t0 == t
        IN  /\ v \in DOMAIN unstarted_trips_this_round'
            /\ "ending_time" \in DOMAIN unstarted_trips_this_round'[v]
            /\ "to" \in DOMAIN unstarted_trips_this_round'[v]
            /\ "ending_fuel" \in DOMAIN unstarted_trips_this_round'[v]
            /\ unstarted_trips_this_round'[v].ending_time = t0
            /\ unstarted_trips_this_round'[v].to = A
            /\ unstarted_trips_this_round'[v].ending_fuel = F
            /\ (DOMAIN unstarted_trips_this_round'[v])
                  \cap {"from", "starting_time", "starting_fuel"} = {}
            /\ unstarted_trips'[v] = unstarted_trips_this_round'[v]
            /\ v \in DOMAIN unfinished_parkings'
            /\ unfinished_parkings'[v].coords = A
            /\ unfinished_parkings'[v].starting_time = t0
            /\ v \notin DOMAIN new_finished_trips'
            /\ v \notin DOMAIN new_finished_parkings'
            /\ ListOf(finished_trips', v) = << >>
            /\ ListOf(finished_parkings', v) = << >>]_vars

\* a vehicle shows up for the first time after the first cycle
C4_Witness ==
    /\ Len(history) >= 2
    /\ "v1" \in history[1].vins
    /\ "v2" \notin history[1].vins
    /\ "v2" \in DOMAIN unstarted_trips_this_round
    /\ unstarted_trips_this_round["v2"].ending_time > starting_time
    /\ unfinished_parkings["v2"].starting_time
          = unstarted_trips["v2"].ending_time

(***************************************************************************)
(* C5: reappearance.  When v is a key of unfinished_trips and is listed in *)
(* the snapshot processed at t, that cycle emits one finished trip of v    *)
(* with ending_time t, to the listed position, ending_fuel the listed      *)
(* fuel and duration t - starting_time, deletes v from unfinished_trips    *)
(* and opens a parking of v at the listed position starting at t; the      *)
(* trip has a speed exactly when its duration is positive.                 *)
(***************************************************************************)
C5_Reappearance ==
    [][\A v \in cfg.vins :
        (/\ ProcessedStep
         /\ v \in DOMAIN unfinished_trips
         /\ v \in ListedVins(data'))
        =>
        /\ v \in DOMAIN new_finished_trips'
        /\ new_finished_trips'[v].ending_time = t
        /\ new_finished_trips'[v].to = CoordsOf(data', v)
        /\ new_finished_trips'[v].ending_fuel = CarOf(data', v).fuel
        /\ new_finished_trips'[v].starting_time
              = unfinished_trips[v].starting_time
        /\ new_finished_trips'[v].duration
              = t - unfinished_trips[v].starting_time
        /\ ("speed" \in DOMAIN new_finished_trips'[v])
              <=> (new_finished_trips'[v].duration > 0)
        /\ finished_trips'[v] =
              Append(ListOf(finished_trips, v), new_finished_trips'[v])
        /\ v \notin DOMAIN unfinished_trips'
        /\ v \in DOMAIN unfinished_parkings'
        /\ unfinished_parkings'[v].starting_time = t
        /\ unfinished_parkings'[v].coords = CoordsOf(data', v)
        /\ unfinished_parkings'[v].fuel = CarOf(data', v).fuel]_vars

\* a vehicle comes back elsewhere, with less fuel, after a cycle without it
C5_Witness ==
    /\ Len(history) >= 3
    /\ history[Len(history)].ok
    /\ history[Len(history) - 1].ok
    /\ "v1" \notin history[Len(history) - 1].vins
    /\ "v1" \in DOMAIN new_finished_trips
    /\ "v1" \notin DOMAIN new_finished_parkings
    /\ new_finished_trips["v1"].duration = 2 * time_step
    /\ new_finished_trips["v1"].fuel_use > 0
    /\ new_finished_trips["v1"].distance > 0
    /\ "speed" \in DOMAIN new_finished_trips["v1"]
    /\ unfinished_parkings["v1"].starting_time = prev_t

CommentExample(h, v) ==
    /\ Len(h) = 8
    /\ \A i \in 1..5 : h[i].ok
    /\ ~h[6].ok /\ ~h[7].ok /\ h[8].ok
    /\ v \in h[2].vins
    /\ \A i \in 3..5 : v \notin h[i].vins
    /\ v \in h[8].vins

C7_MissingCycleDuration ==
    [][\A v \in cfg.vins :
        /\ (ProcessedStep /\ v \in DOMAIN new_finished_trips')
            => LET k == Max(SeenAt(history, v))
                   n == Len(history') - k
               IN  /\ new_finished_trips'[v].starting_time = history[k].t
                   /\ new_finished_trips'[v].ending_time = history'[k + n].t
                   /\ new_finished_trips'[v].duration = n * time_step
        /\ CommentExample(history', v)
            => /\ v \in DOMAIN new_finished_trips'
               /\ new_finished_trips'[v].duration = 6 * time_step]_vars

\* the sequence of the comment in batch_load_data has just been processed
C7_Witness ==
    /\ CommentExample(history, "v1")
    /\ "v1" \in DOMAIN new_finished_trips
    /\ new_finished_trips["v1"].duration = 6 * time_step
    /\ Len(missing_data_points) = 2

(***************************************************************************)
(* C8: an iteration whose file is absent, unreadable or not valid JSON     *)
(* appends its timestamp to the missing list, leaves prev_t, the open      *)
(* maps, unstarted_trips and the finished lists as they are, and the loop  *)
(* goes on with the next timestamp; the batch is never aborted.            *)
(***************************************************************************)
C8_MissingCycleSkipped ==
    [][(FailedStep \/ RaisedStep) =>
        /\ missing_data_points' = Append(missing_data_points, t)
        /\ UNCHANGED <<prev_t, unfinished_trips, unfinished_parkings,
                       unstarted_trips, finished_trips, finished_parkings>>
        /\ t' = t + time_step
        /\ pc' = "loop"]_vars

(***************************************************************************)
(* C9: with no missing cycle, for every vehicle the durations of its       *)
(* parkings plus the durations of its trips add up to the time it was last *)
(* listed minus the time it was first listed.                              *)
(***************************************************************************)
RECURSIVE SumDurations(_)
SumDurations(list) ==
    IF list = << >> THEN 0
    ELSE list[1].duration + SumDurations(Tail(list))

FirstSeen(v) == history[Min(SeenAt(history, v))].t

LastSeen(v) == history[Max(SeenAt(history, v))].t

\* the claim as stated: only closed periods have a duration
C9_DurationsAddUp_AsStated ==
    (pc = "done" /\ result.metadata.missing = << >>)
    => \A v \in EverSeen :
          SumDurations(ListOf(result.finished_parkings, v))
              + SumDurations(ListOf(result.finished_trips, v))
          = LastSeen(v) - FirstSeen(v)

\* the time an open parking has lasted when its vehicle was last listed
OpenParkingTime(v) ==
    IF v \in DOMAIN result.unfinished_parkings
    THEN LastSeen(v) - result.unfinished_parkings[v].starting_time
    ELSE 0

\* C9 as amended: with no missing cycle, the durations of a vehicle's
\* finished parkings and finished trips, plus the time from the start of
\* its open parking (if it has one) to its last listing, add up to the time
\* it was last listed minus the time it was first listed.
C9_DurationsAddUp ==
    (pc = "done" /\ result.metadata.missing = << >>)
    => \A v \in EverSeen :
          SumDurations(ListOf(result.finished_parkings, v))
              + SumDurations(ListOf(result.finished_trips, v))
              + OpenParkingTime(v)
          = LastSeen(v) - FirstSeen(v)

\* a run without gaps in which a vehicle parked for a while, moved, and
\* was still parked at its new place for a while when the run ended
C9_Witness ==
    /\ pc = "done"
    /\ result.metadata.missing = << >>
    /\ "v1" \in DOMAIN result.finished_parkings
    /\ "v1" \in DOMAIN result.finished_trips
    /\ "v1" \in DOMAIN result.unfinished_parkings
    /\ SumDurations(result.finished_parkings["v1"]) > 0
    /\ OpenParkingTime("v1") > 0

(***************************************************************************)
(* C10: round trip.  Regenerating the snapshots from the result of a run   *)
(* and running batch_load_data over them yields the same finished_trips    *)
(* and finished_parkings as the first run.                                 *)
(***************************************************************************)
C10_RoundTrip ==
    pc = "done"
    => LET second == Rerun(result)
       IN  /\ second.finished_trips = result.finished_trips
           /\ second.finished_parkings = result.finished_parkings

\* a run with a gap, two trips of one vehicle and a parking in between
C10_Witness ==
    /\ pc = "done"
    /\ Len(result.metadata.missing) >= 1
    /\ "v1" \in DOMAIN result.finished_trips
    /\ Len(result.finished_trips["v1"]) >= 2
    /\ Len(result.finished_parkings["v1"]) >= 2
    /\ Rerun(result).finished_trips["v1"] = result.finished_trips["v1"]

(***************************************************************************)
(* C11: a run is a function of its input: what an iteration produces does  *)
(* not depend on the order in which the snapshot lists the vehicles, nor   *)
(* on the order in which the set of vehicles that just became unavailable  *)
(* is iterated.                                                            *)
(***************************************************************************)
\* the orders in which a set can be iterated
Orderings(S) ==
    {q \in [1..Cardinality(S) -> S] :
        \A i, j \in 1..Cardinality(S) : i # j => q[i] # q[j]}

\* the lists that hold the records of a list in another order
Reorderings(list) ==
    {[i \in 1..Len(list) |-> list[q[i]]] : q \in Orderings(1..Len(list))}

\* "for vin in vins_that_just_became_unavailable", iterated in a given order
RECURSIVE process_unavailables_in(_, _, _, _)
process_unavailables_in(order, i, s, prev_data_time) ==
    IF i > Len(order) THEN s
    ELSE process_unavailables_in(
             order, i + 1, process_unavailable(order[i], s, prev_data_time),
             prev_data_time)

\* the second loop of process_data over every iteration order of the set
start_trips_any_order(s, prev_data_time) ==
    IF s.raised THEN {s}
    ELSE {process_unavailables_in(order, 1, s, prev_data_time) :
            order \in Orderings(just_became_unavailable(
                                    s.unfinished_parkings, s.available_vins))}

\* what process_data can return for a list of cars, over every iteration
\* order of the set
process_data_outcomes(data_time, prev_data_time, available_cars, unf_trips, unf_parkings) ==
    start_trips_any_order(
        process_cars(available_cars, 1,
                     [unstarted_potential_trips |-> EmptyDict,
                      finished_trips |-> EmptyDict,
                      finished_parkings |-> EmptyDict,
                      unfinished_trips |-> unf_trips,
                      unfinished_parkings |-> unf_parkings,
                      available_vins |-> {},
                      raised |-> FALSE],
                     data_time, prev_data_time, OTHER_KEYS(available_cars)),
        prev_data_time)

\* the process_data results that the variables hold after an iteration
TakenResults ==
    [finished_trips |-> new_finished_trips,
     finished_parkings |-> new_finished_parkings,
     unstarted_potential_trips |-> unstarted_trips_this_round,
     unfinished_trips |-> unfinished_trips,
     unfinished_parkings |-> unfinished_parkings]

\* the five values process_data returns
Returned(r) ==
    [finished_trips |-> r.finished_trips,
     finished_parkings |-> r.finished_parkings,
     unstarted_potential_trips |-> r.unstarted_potential_trips,
     unfinished_trips |-> r.unfinished_trips,
     unfinished_parkings |-> r.unfinished_parkings]

ProcessCall ==
    \/ cfg.name # "old" /\ pc = "loop" /\ Truthy(data')
          /\ (t' # t \/ pc' = "raised")
    \/ pc = "old_while" /\ pc' \in {"old_skip", "raised"}

\* the iterations in which process_data was called and returned
Calls(h) == {k \in 1..Len(h) : h[k].ok}

C12_CallsInOrder ==
    [][ProcessCall =>
        /\ \A k \in Calls(history) : history[k].t < t
        /\ Calls(history) # {} =>
              /\ prev_t = history[Max(Calls(history))].t
              /\ prev_t < t]_vars

\* src/normalize.py: a call, a file that was skipped, and another call
C12_Witness ==
    /\ cfg.name = "old"
    /\ Len(history) >= 3
    /\ history[1].ok /\ ~history[2].ok /\ history[3].ok
    /\ prev_t = history[3].t
    /\ pc = "old_skip"

(***************************************************************************)
(* C13: every starting_time and ending_time of a parking or trip of a      *)
(* vehicle is the time of a processed cycle that listed the vehicle, and   *)
(* the duration of every finished trip is a whole multiple of time_step.   *)
(***************************************************************************)
\* the times of the processed cycles that listed v
PresentTimes(v) == {history[k].t : k \in SeenAt(history, v)}

\* the times that the records of v hold: of its finished and open
\* parkings and trips and of its unstarted trip
RecordTimes(v) ==
    {ListOf(finished_parkings, v)[k].starting_time :
        k \in 1..Len(ListOf(finished_parkings, v))}
    \cup {ListOf(finished_parkings, v)[k].ending_time :
            k \in 1..Len(ListOf(finished_parkings, v))}
    \cup {ListOf(finished_trips, v)[k].starting_time :
            k \in 1..Len(ListOf(finished_trips, v))}
    \cup {ListOf(finished_trips, v)[k].ending_time :
            k \in 1..Len(ListOf(finished_trips, v))}
    \cup (IF Has(unfinished_parkings, v)
          THEN {unfinished_parkings[v].starting_time} ELSE {})
    \cup (IF Has(unfinished_trips, v)
          THEN {unfinished_trips[v].starting_time} ELSE {})
    \cup (IF Has(unstarted_trips, v)
          THEN {unstarted_trips[v].ending_time} ELSE {})

C13_TimesAreObserved ==
    \A v \in (DOMAIN finished_parkings) \cup (DOMAIN finished_trips)
                \cup (DOMAIN unfinished_parkings)
                \cup (DOMAIN unfinished_trips) \cup (DOMAIN unstarted_trips) :
        /\ RecordTimes(v) \subseteq PresentTimes(v)
        /\ \A k \in 1..Len(ListOf(finished_trips, v)) :
              ListOf(finished_trips, v)[k].duration % time_step = 0

\* with cycles five minutes apart, a trip that spans a missing cycle
C13_Witness ==
    /\ time_step = 300
    /\ Len(missing_data_points) = 1
    /\ Has(finished_trips, "v1")
    /\ finished_trips["v1"][1].duration = 2 * time_step
    /\ finished_trips["v1"][1].starting_time = starting_time

(***************************************************************************)
(* C14: when the starting time is later than the last file of the          *)
(* location, or when the batch_load_data of src/normalize.py cannot load   *)
(* the first file, the function does not raise, processes no cycle and     *)
(* returns empty maps with metadata.ending_time equal to starting_time.    *)
(***************************************************************************)
\* there is nothing to process: the last file of a directory or tar archive
\* is before starting_time, or, in src/normalize.py, the load of the first
\* file has returned False
Exhausted ==
    IF cfg.name = "old"
    THEN pc # "start" /\ old_i = 1 /\ data = False
    ELSE /\ system \in KnownSystems
         /\ location \in {"directory", "tar"}
         /\ last_file_time < starting_time

\* the result of a run that processed nothing
EmptyResult(step_seconds) ==
    [finished_trips |-> EmptyDict,
     finished_parkings |-> EmptyDict,
     unfinished_trips |-> EmptyDict,
     unfinished_parkings |-> EmptyDict,
     unstarted_trips |-> EmptyDict,
     metadata |-> [starting_time |-> starting_time,
                   ending_time |-> starting_time,
                   time_step |-> step_seconds,
                   missing |-> << >>]]

C14_Exhaustion ==
    Exhausted =>
        /\ pc \notin {"raised", "exit"}
        /\ history = << >>
        /\ pc = "loop" => ~(t <= ending_time)
        /\ pc = "old_while" => ~OldWhileCond
        /\ pc = "done" =>
              result = EmptyResult(IF cfg.name = "old" THEN time_step * 60
                                   ELSE time_step)

\* a tar archive whose last member is before starting_time: returned
C14_Witness ==
    /\ pc = "done"
    /\ location = "tar"
    /\ last_file_time < starting_time
    /\ result.metadata.ending_time = starting_time

(***************************************************************************)
(* C15: processing a snapshot that lists a vehicle id twice raises at      *)
(* once: the run ends with an error and nothing derived from the snapshot  *)
(* reaches the finished lists or the open maps.                            *)
(***************************************************************************)
\* the document lists some id more than once
HasDuplicateId(d) ==
    /\ Truthy(d)
    /\ \E k, m \in 1..Len(get_cars_from_json(d)) :
          k # m /\ get_cars_from_json(d)[k].vin = get_cars_from_json(d)[m].vin

\* this step is a loop iteration that loaded a document
LoadedStep == pc = "loop" /\ Truthy(data') /\ (t' # t \/ pc' = "raised")

C15_DuplicateIdIsFatal ==
    [][(LoadedStep /\ HasDuplicateId(data')) =>
        /\ pc' = "raised"
        /\ UNCHANGED <<finished_trips, finished_parkings, unfinished_trips,
                       unfinished_parkings, unstarted_trips>>]_vars

(***************************************************************************)
(* C16: a vehicle record whose attribute keys differ from those of the     *)
(* first record of the snapshot, or a trip that ends in a snapshot whose   *)
(* first record has other attribute keys than the trip took at its start,  *)
(* makes the run fail at once.                                             *)
(***************************************************************************)
\* the attribute keys of a vehicle record that are tracked for trips
TrackedKeys(car) ==
    (DOMAIN extract_car_data(car)) \ (RECOGNIZED_KEYS \cup IGNORED_KEYS)

\* the attribute keys that an open trip took over from its parking
TripKeys(trip) ==
    (DOMAIN trip) \ {"vin", "from", "starting_time", "starting_fuel",
                     "ending_time", "duration"}

\* a record of the list differs in keys from the first record
KeysDifferWithin(cars) ==
    \E k \in 1..Len(cars) : TrackedKeys(cars[k]) # OTHER_KEYS(cars)

\* a listed vehicle has an open trip with other keys than the first record
KeysDifferFromTrip(cars, trips) ==
    \E k \in 1..Len(cars) :
        /\ Has(trips, cars[k].vin)
        /\ TripKeys(trips[cars[k].vin]) # OTHER_KEYS(cars)

C16_KeyMismatchIsFatal ==
    [][(LoadedStep
        /\ (\/ KeysDifferWithin(get_cars_from_json(data'))
            \/ KeysDifferFromTrip(get_cars_from_json(data'),
                                  unfinished_trips)))
        => pc' = "raised"]_vars

(***************************************************************************)
(* C17: with an unknown provider the run stops at its entry: no snapshot   *)
(* is ever loaded or processed, the failure is not found in a cycle, and   *)
(* no result is returned.                                                  *)
(***************************************************************************)
C17_UnknownProviderStopsAtEntry ==
    system \notin KnownSystems
        => /\ data = None
           /\ history = << >>
           /\ result = None
           /\ pc \in {"start", "exit"}

(***************************************************************************)
(* C18: the archive is opened at most once in a run, and a run that has    *)
(* ended, by return or by an error, has closed it.                         *)
(***************************************************************************)
\* the run is over: returned, left by an exception, or exited
Ended == pc \in {"done", "raised", "exit"}

C18_ArchiveReleased ==
    /\ [](Ended => archive # "open")
    /\ [][archive' = "open" => archive \in {"none", "open"}]_vars

(***************************************************************************)
(* C19: for a missing file, a missing archive member and a payload that is *)
(* not JSON the loaders return False and do not raise; for a payload that  *)
(* is JSON they return the parsed document.                                *)
(***************************************************************************)
\* what the location can hold for the cycle that is loaded next
FilesNow ==
    IF cfg.name = "old" THEN OldFilesAt(t) ELSE GoodFiles(cfg) \cup BadFiles

\* file is missing, or present and not JSON
MissingOrInvalid(file) == file.kind \in {"absent", "malformed"}

C19_LoadersReturnAbsent ==
    \A file \in FilesNow :
        /\ MissingOrInvalid(file)
              => /\ load_data_from_file(file) = False
                 /\ load_data_from_tar(file) = False
                 /\ load_file(file) = False
        /\ file.kind = "json"
              => /\ load_data_from_file(file) = file.json
                 /\ load_data_from_tar(file) = file.json
                 /\ load_file(file) = file.json

\* the tar loader has returned a document for one cycle and False for a
\* later one, and the run goes on
C19_Witness ==
    /\ pc = "loop"
    /\ load_data_point = "load_data_from_tar"
    /\ data = False
    /\ \E k \in 1..Len(history) : history[k].ok
    /\ ~history[Len(history)].ok

(***************************************************************************)
(* C20: a directory, a tar archive and a zip archive that hold the same    *)
(* entries give the same result: whatever the location is, the run gets to *)
(* its loop, and every iteration does for an entry what it would do for    *)
(* the same entry read from the other kind of location.                    *)
(***************************************************************************)
\* the run of a known system has got past the opening of the location
StoreOpened == pc' = "loop"

\* the iteration on an entry does not depend on the loader that reads it
SameIteration(file) ==
    LoopBody(Loop, "load_data_from_tar", file)
        = LoopBody(Loop, "load_data_from_file", file)

C20_StoresEquivalent ==
    /\ [][(pc = "start" /\ cfg.name # "old" /\ system \in KnownSystems)
            => StoreOpened]_vars
    /\ []((pc = "loop" /\ t <= ending_time)
            => \A file \in FilesNow : SameIteration(file))

(***************************************************************************)
(* C21: the finished trips and the finished parkings of each vehicle are   *)
(* in chronological order: along each list starting_time does not          *)
(* decrease, and a record does not start before the one before it ends.    *)
(***************************************************************************)
Chronological(list) ==
    \A k \in 1..(Len(list) - 1) :
        /\ list[k].starting_time <= list[k + 1].starting_time
        /\ list[k].ending_time <= list[k + 1].starting_time

AllChronological(lists) ==
    \A v \in DOMAIN lists : Chronological(lists[v])

C21_ChronologicalLists ==
    /\ AllChronological(finished_trips)
    /\ AllChronological(finished_parkings)
    /\ result # None
          => /\ AllChronological(result.finished_trips)
             /\ AllChronological(result.finished_parkings)

\* a returned result in which a vehicle has two finished trips and two
\* finished parkings
C21_Witness ==
    /\ pc = "done"
    /\ \E v \in DOMAIN result.finished_trips :
          /\ Len(result.finished_trips[v]) >= 2
          /\ v \in DOMAIN result.finished_parkings
          /\ Len(result.finished_parkings[v]) >= 2

(***************************************************************************)
(* process_data and batch_load_data with the dictionaries of the records   *)
(* as objects: heap is the sequence of all dicts made so far, a reference  *)
(* is an index into it, and the dicts and lists of the run hold            *)
(* references.  A copy makes a new object; an assignment through an alias  *)
(* changes the object for every holder of the reference.                   *)
(***************************************************************************)
Objects == [name |-> "objects", vins |-> {"v1"},
            coords |-> {<<49, 11>>, <<50, 11>>}, fuels |-> {80},
            chargings |-> {FALSE, TRUE}, ncycles |-> MaxCyclesObjects,
            time_steps |-> {60},
            ends |-> {[req |-> -1, last |-> MaxCyclesObjects - 1]},
            keysets |-> {{"charging"}}, duplicates |-> FALSE,
            systems |-> {"drivenow"}, locations |-> {"directory"}]

\* "unstarted_potential_trips[vin] = end_unstarted_trip(data_time, car)":
\* process_car makes the dict
obj_end_unstarted_trip(m, vin, prev_time, car, other_keys) ==
    [m EXCEPT
       !.heap = Append(@, end_unstarted_trip(prev_time, car, other_keys)),
       !.unstarted_potential_trips = Put(@, vin, Len(m.heap) + 1)]

\* "unfinished_parkings[vin] = start_parking(data_time, car)": process_car
\* makes the dict
obj_start_parking(m, vin, curr_time, car, other_keys) ==
    [m EXCEPT
       !.heap = Append(@, start_parking(curr_time, car, other_keys)),
       !.unfinished_parkings = Put(@, vin, Len(m.heap) + 1)]

\* "finished_parkings[vin] = end_parking(prev_data_time,
\* unfinished_parkings[vin])": "result = dict.copy(unfinished_parking)"
obj_end_parking(m, vin, prev_time) ==
    [m EXCEPT
       !.heap = Append(@, end_parking(prev_time,
                                      m.heap[m.unfinished_parkings[vin]])),
       !.finished_parkings = Put(@, vin, Len(m.heap) + 1)]

\* variant: "result = starting_car_info", the trip is the parking's dict
obj_start_trip_no_copy(h, curr_time, ref) ==
    [heap |-> [h EXCEPT ![ref] = start_trip(curr_time, h[ref])],
     ref |-> ref]

\* start_trip: "result = dict.copy(starting_car_info)", a new dict
obj_start_trip(h, curr_time, ref) ==
    [heap |-> Append(h, start_trip(curr_time, h[ref])),
     ref |-> Len(h) + 1]

\* end_trip: "trip_data = unfinished_trip", the dict passed in is changed
\* and returned
obj_end_trip(h, prev_time, car, ref, other_keys) ==
    [h EXCEPT ![ref] = end_trip(prev_time, car, h[ref], other_keys)]

\* "if vin not in unfinished_parkings and vin not in unfinished_trips"
obj_first_observation(car, vin, m, data_time, other_keys) ==
    IF ~Has(m.unfinished_parkings, vin) /\ ~Has(m.unfinished_trips, vin)
    THEN obj_start_parking(
             obj_end_unstarted_trip(m, vin, data_time, car, other_keys),
             vin, data_time, car, other_keys)
    ELSE m

\* "finished_trips[vin] = end_trip(data_time, car, unfinished_trips[vin])",
\* "del unfinished_trips[vin]" and the new parking
obj_trip_finished(car, vin, m, data_time, other_keys) ==
    obj_start_parking(
        [m EXCEPT
           !.heap = obj_end_trip(@, data_time, car, m.unfinished_trips[vin],
                                 other_keys),
           !.finished_trips = Put(@, vin, m.unfinished_trips[vin]),
           !.unfinished_trips = Del(@, vin)],
        vin, data_time, car, other_keys)

\* the one-cycle-trip branch once start_trip has made the trip tr from the
\* finished parking of m
obj_one_cycle_trip(car, vin, m, tr, data_time, other_keys) ==
    obj_start_parking(
        [m EXCEPT
           !.heap = obj_end_trip(tr.heap, data_time, car, tr.ref, other_keys),
           !.finished_trips = Put(@, vin, tr.ref)],
        vin, data_time, car, other_keys)

\* the one-cycle-trip branch once end_parking has left its result in m
obj_moved(car, vin, m, data_time, prev_data_time, other_keys) ==
    obj_one_cycle_trip(
        car, vin, m,
        obj_start_trip(m.heap, prev_data_time, m.finished_parkings[vin]),
        data_time, other_keys)

\* "if vin in unfinished_trips: ... elif vin in unfinished_parkings and ..."
obj_trip_or_move(car, vin, lat, lng, m, data_time, prev_data_time, other_keys) ==
    IF Has(m.unfinished_trips, vin)
    THEN obj_trip_finished(car, vin, m, data_time, other_keys)
    ELSE IF Has(m.unfinished_parkings, vin)
            /\ has_moved(lat, lng, m.heap[m.unfinished_parkings[vin]])
    THEN obj_moved(car, vin, obj_end_parking(m, vin, prev_data_time),
                   data_time, prev_data_time, other_keys)
    ELSE m

\* body of "for car in available_cars"
obj_process_one_car(car, m, data_time, prev_data_time, other_keys) ==
    obj_trip_or_move(
        car, extract_car_basics(car)[1], extract_car_basics(car)[2],
        extract_car_basics(car)[3],
        obj_first_observation(
            car, extract_car_basics(car)[1],
            [m EXCEPT !.available_vins = @ \cup {extract_car_basics(car)[1]}],
            data_time, other_keys),
        data_time, prev_data_time, other_keys)

RECURSIVE obj_process_cars(_, _, _, _, _, _)
obj_process_cars(available_cars, k, m, data_time, prev_data_time, other_keys) ==
    IF k > Len(available_cars) THEN m
    ELSE obj_process_cars(available_cars, k + 1,
                          obj_process_one_car(available_cars[k], m, data_time,
                                              prev_data_time, other_keys),
                          data_time, prev_data_time, other_keys)

\* "del unfinished_parkings[vin]" and "unfinished_trips[vin] =
\* start_trip(prev_data_time, finished_parkings[vin])" with the trip tr
obj_trip_started(vin, m, tr) ==
    [m EXCEPT !.heap = tr.heap,
              !.unfinished_parkings = Del(@, vin),
              !.unfinished_trips = Put(@, vin, tr.ref)]

\* body of "for vin in vins_that_just_became_unavailable" once end_parking
\* has left its result in m
obj_process_unavailable(vin, m, prev_data_time) ==
    obj_trip_started(
        vin, m,
        obj_start_trip(m.heap, prev_data_time, m.finished_parkings[vin]))

RECURSIVE obj_process_unavailables(_, _, _)
obj_process_unavailables(vins, m, prev_data_time) ==
    IF vins = {} THEN m
    ELSE obj_process_unavailables(
             vins \ {CHOOSE v \in vins : TRUE},
             obj_process_unavailable(
                 CHOOSE v \in vins : TRUE,
                 obj_end_parking(m, CHOOSE v \in vins : TRUE, prev_data_time),
                 prev_data_time),
             prev_data_time)

\* the second loop of process_data, on what the first loop left in m
obj_start_trips(m, prev_data_time) ==
    obj_process_unavailables(
        just_became_unavailable(m.unfinished_parkings, m.available_vins),
        m, prev_data_time)

obj_process_data(h, data_time, prev_data_time, new_availability_json, unf_trips, unf_parkings) ==
    obj_start_trips(
        obj_process_cars(
            get_cars_from_json(new_availability_json), 1,
            [heap |-> h,
             unstarted_potential_trips |-> EmptyDict,
             finished_trips |-> EmptyDict,
             finished_parkings |-> EmptyDict,
             unfinished_trips |-> unf_trips,
             unfinished_parkings |-> unf_parkings,
             available_vins |-> {}],
            data_time, prev_data_time,
            OTHER_KEYS(get_cars_from_json(new_availability_json))),
        prev_data_time)

\* lines 332-345 of the loop with the results m of process_data on d
ObjAssign(m, d) ==
    /\ heap' = m.heap
    /\ unfinished_trips' = m.unfinished_trips
    /\ unfinished_parkings' = m.unfinished_parkings
    /\ unstarted_trips' = Update(unstarted_trips, m.unstarted_potential_trips)
    /\ finished_trips' = AppendAll(finished_trips, m.finished_trips)
    /\ finished_parkings' = AppendAll(finished_parkings, m.finished_parkings)
    /\ new_finished_trips' = m.finished_trips
    /\ new_finished_parkings' = m.finished_parkings
    /\ unstarted_trips_this_round' = m.unstarted_potential_trips
    /\ data' = d
    /\ prev_t' = t
    /\ t' = t + time_step
    /\ history' = Append(history, [t |-> t, ok |-> TRUE,
                                   vins |-> ListedVins(d)])

\* an iteration whose file holds a usable document
ObjCycleData ==
    /\ pc = "loop"
    /\ t <= ending_time
    /\ \E file \in GoodFiles(cfg) :
          ObjAssign(obj_process_data(heap, t, prev_t,
                                     load(load_data_point, file),
                                     unfinished_trips, unfinished_parkings),
                    load(load_data_point, file))
    /\ UNCHANGED <<Params, result, missing_data_points, pc, file_dir,
                   saved_data, trips_by_vin, data_frames, all_trips>>

NextObjects == Start \/ ObjCycleData \/ CycleMissing \/ Return

SpecObjects == InitShape(Objects) /\ [][NextObjects]_vars

(***************************************************************************)
(* C22: a finished parking, a finished trip or an unstarted trip that is   *)
(* in the lists of the run is not changed by any later step: it stays      *)
(* where it is and keeps all its fields.                                   *)
(***************************************************************************)
\* the references held by the lists of finished records and unstarted_trips
AppendedRefs ==
    UNION {{finished_trips[v][k] : k \in 1..Len(finished_trips[v])} :
              v \in DOMAIN finished_trips}
    \cup UNION {{finished_parkings[v][k] : k \in 1..Len(finished_parkings[v])} :
                   v \in DOMAIN finished_parkings}
    \cup {unstarted_trips[v] : v \in DOMAIN unstarted_trips}

\* list is the beginning of longer
IsPrefix(list, longer) ==
    /\ Len(list) <= Len(longer)
    /\ \A k \in 1..Len(list) : longer[k] = list[k]

C22_AppendedRecordsFrozen ==
    [][/\ \A r \in AppendedRefs : heap'[r] = heap[r]
       /\ \A v \in DOMAIN finished_trips :
             IsPrefix(finished_trips[v], finished_trips'[v])
       /\ \A v \in DOMAIN finished_parkings :
             IsPrefix(finished_parkings[v], finished_parkings'[v])
       /\ \A v \in DOMAIN unstarted_trips :
             unstarted_trips'[v] = unstarted_trips[v]]_vars

\* a finished parking is in the result, and the trip built from it has
\* been started and ended
C22_Witness ==
    /\ pc = "done"
    /\ \E v \in DOMAIN result.finished_parkings :
          /\ v \in DOMAIN result.finished_trips
          /\ \E k \in 1..Len(result.finished_trips[v]) :
                heap[result.finished_trips[v][k]].starting_time
                    = heap[result.finished_parkings[v][1]].ending_time
          /\ v \in DOMAIN result.unstarted_trips

(***************************************************************************)
(* C23: the timestamps that batch_load_data loads are starting_time,       *)
(* starting_time + time_step, ... each once and in this order, none later  *)
(* than the requested ending_time or than the last file, and a run that    *)
(* returns has loaded all of them up to the earlier of the two (the last   *)
(* file when no ending_time is given).                                     *)
(***************************************************************************)
\* min(requested ending time, time of the last file)
LastToLoad ==
    IF requested_ending_time = None THEN last_file_time
    ELSE Min({requested_ending_time.time, last_file_time})

\* the times of the iterations so far are the first points of the grid
OnGrid ==
    \A k \in 1..Len(history) :
        history[k].t = starting_time + (k - 1) * time_step

C23_EachTimestampOnce ==
    cfg.name # "old"
       => /\ OnGrid
          /\ \A k \in 1..Len(history) : history[k].t <= LastToLoad
          /\ pc = "done"
                => starting_time + Len(history) * time_step > LastToLoad

\* a returned run with an ending_time later than the last file, which has
\* loaded the time of the last file
C23_Witness ==
    /\ pc = "done"
    /\ requested_ending_time # None
    /\ requested_ending_time.time > last_file_time
    /\ Len(history) >= 2
    /\ history[Len(history)].t = last_file_time

(***************************************************************************)
(* C24: in the result, metadata.ending_time is the time of the last cycle  *)
(* that was processed, whatever the requested end and whatever is missing  *)
(* after it, and metadata.starting_time is the requested start, also when  *)
(* the first cycles are missing.                                           *)
(***************************************************************************)
\* the times of the cycles that were processed
ProcessedTimes == {history[k].t : k \in {j \in 1..Len(history) : history[j].ok}}

C24_MetadataTimes ==
    (cfg.name # "old" /\ pc = "done")
       => /\ result.metadata.starting_time = starting_time
          /\ ProcessedTimes # {}
                => result.metadata.ending_time = Max(ProcessedTimes)

\* a result of a run whose first and last cycles were missing, with a
\* processed cycle between them
C24_Witness ==
    /\ cfg.name # "old"
    /\ pc = "done"
    /\ Len(history) >= 3
    /\ ~history[1].ok
    /\ ~history[Len(history)].ok
    /\ ProcessedTimes # {}
    /\ result.metadata.ending_time < LastToLoad
    /\ result.metadata.starting_time < Min(ProcessedTimes)

(***************************************************************************)
(* C25: a vehicle with an open parking has as many finished parkings as    *)
(* finished trips, and a vehicle with an open trip has one finished        *)
(* parking more than finished trips.                                       *)
(***************************************************************************)
\* len(lists[v]) of a defaultdict(list)
Count(lists, v) == IF v \in DOMAIN lists THEN Len(lists[v]) ELSE 0

Balanced(open_parkings, open_trips, parkings, trips) ==
    /\ \A v \in DOMAIN open_parkings : Count(parkings, v) = Count(trips, v)
    /\ \A v \in DOMAIN open_trips : Count(parkings, v) = Count(trips, v) + 1

C25_ParkingsAndTripsBalance ==
    cfg.name # "old"
       => /\ Balanced(unfinished_parkings, unfinished_trips,
                      finished_parkings, finished_trips)
          /\ pc = "done"
                => Balanced(result.unfinished_parkings,
                            result.unfinished_trips,
                            result.finished_parkings, result.finished_trips)

\* a result with a vehicle on an open trip after two finished parkings and
\* a vehicle in an open parking after a finished trip
C25_Witness ==
    /\ cfg.name # "old"
    /\ pc = "done"
    /\ \E v \in DOMAIN result.unfinished_trips :
          Count(result.finished_parkings, v) = 2
    /\ \E v \in DOMAIN result.unfinished_parkings :
          Count(result.finished_trips, v) >= 1

(***************************************************************************)
(* src/process.py: process_data and the loop of batch_process.  The files  *)
(* of file_dir are state: the loop looks ahead at later files and copies   *)
(* one over a missing file, and reads the later files again in their turn. *)
(***************************************************************************)
Script == [name |-> "script", vins |-> {"v1"},
           coords |-> {<<49, 11>>, <<50, 11>>}, fuels |-> {80},
           ncycles |-> MaxCyclesScript, time_steps |-> {1},
           max_files |-> {False, PyInt(2)}, max_skip |-> {0, 2}]

\* a record of the list under 'placemarks', as process_data reads it:
\* coordinates is [lng, lat, altitude]
Placemark(v, c, f) ==
    [vin |-> v, name |-> v, coordinates |-> <<c[2], c[1], 0>>, fuel |-> f]

\* what a file of file_dir can be: not there, not JSON, not readable, or a
\* document with a list of at most one record per vehicle
ScriptFiles(shape) ==
    {[kind |-> "absent"], [kind |-> "malformed"], [kind |-> "unreadable"],
     [kind |-> "json", json |-> [py |-> "dict", placemarks |-> << >>]]}
    \cup {[kind |-> "json",
           json |-> [py |-> "dict", placemarks |-> <<Placemark(v, c, f)>>]] :
             v \in shape.vins, c \in shape.coords, f \in shape.fuels}

\* the times that get_filepath can name a file of the directory for
ScriptTimes(shape, start, step) ==
    {start + k * step * 60 : k \in 0..(shape.ncycles - 1)}

\* the file of the directory for a time
FileAt(dir, time) ==
    IF time \in DOMAIN dir THEN dir[time] ELSE [kind |-> "absent"]

\* load_file: False when the path does not exist or the text is not JSON;
\* open and read are outside the try
bp_load_file(file) ==
    CASE file.kind = "absent"     -> False
      [] file.kind = "malformed"  -> False
      [] file.kind = "unreadable" -> Raise
      [] OTHER                    -> file.json

\* "for vin in data.keys(): data[vin]['just_moved'] = False"
bp_reset_just_moved(d) ==
    [vin \in DOMAIN d |-> [d[vin] EXCEPT !.just_moved = FALSE]]

\* trip_data of a car that has moved; old is data[vin] before the update
bp_trip_data(vin, old, lat, lng, data_time, car) ==
    Update([vin |-> vin, from |-> old.coords, to |-> <<lat, lng>>,
            starting_time |-> old.seen, ending_time |-> data_time,
            distance |-> dist(<<lat, lng>>, old.coords),
            duration |-> data_time - old.seen,
            fuel_use |-> 0],
           IF Has(old, "fuel")
           THEN [starting_fuel |-> old.fuel, ending_fuel |-> car.fuel,
                 fuel_use |-> old.fuel - car.fuel]
           ELSE EmptyDict)

\* "current_trip_distance / (current_trip_duration / 3600.0)"
bp_speed(trip) == (trip.distance * 3600) \div trip.duration

\* {'speed': ...} "if current_trip_duration > 0"
bp_speed_entry(trip) ==
    IF trip.duration > 0 THEN [speed |-> bp_speed(trip)] ELSE EmptyDict

\* data[vin] of a car that has moved
bp_moved_entry(old, lat, lng, data_time, car, trip) ==
    Update(Update([old EXCEPT !.coords = <<lat, lng>>, !.seen = data_time,
                              !.just_moved = TRUE],
                  IF Has(old, "fuel") THEN [fuel |-> car.fuel]
                  ELSE EmptyDict),
           Update([most_recent_trip |-> trip], bp_speed_entry(trip)))

\* "car has moved since last known position", with its trip_data
bp_car_moved(s, vin, lat, lng, data_time, car, trip) ==
    [s EXCEPT
       !.data = Put(@, vin, bp_moved_entry(s.data[vin], lat, lng, data_time,
                                           car, trip)),
       !.trips = Append(@, trip),
       !.positions = Append(@, [coords |-> <<lat, lng>>,
                                metadata |-> bp_speed_entry(trip)])]

\* "if vin in previous_data:"
bp_known_car(s, vin, lat, lng, data_time, car) ==
    IF ~(s.data[vin].coords[1] = lat /\ s.data[vin].coords[2] = lng)
    THEN bp_car_moved(s, vin, lat, lng, data_time, car,
                      bp_trip_data(vin, s.data[vin], lat, lng, data_time, car))
    ELSE [s EXCEPT
            !.data = Put(@, vin, [s.data[vin] EXCEPT !.seen = data_time,
                                                     !.just_moved = FALSE]),
            !.positions = Append(@, [coords |-> <<lat, lng>>,
                                     metadata |-> EmptyDict])]

\* "'new' car showing up, initialize it"
bp_new_car(s, vin, name, lat, lng, data_time, car) ==
    [s EXCEPT
       !.data = Put(@, vin,
                    Update([name |-> name, coords |-> <<lat, lng>>,
                            seen |-> data_time, just_moved |-> FALSE],
                           IF Has(car, "fuel") THEN [fuel |-> car.fuel]
                           ELSE EmptyDict)),
       !.positions = Append(@, [coords |-> <<lat, lng>>,
                                metadata |-> EmptyDict])]

\* body of "for car in json_data": lat is coordinates[1], lng coordinates[0]
bp_one_car(s, car, data_time) ==
    IF ~Has(car, "vin") THEN s
    ELSE IF Has(s.data, car.vin)
    THEN bp_known_car(s, car.vin, car.coordinates[2], car.coordinates[1],
                      data_time, car)
    ELSE bp_new_car(s, car.vin, car.name, car.coordinates[2],
                    car.coordinates[1], data_time, car)

RECURSIVE bp_cars(_, _, _, _)
bp_cars(json_data, k, s, data_time) ==
    IF k > Len(json_data) THEN s
    ELSE bp_cars(json_data, k + 1, bp_one_car(s, json_data[k], data_time),
                 data_time)

\* process_data of src/process.py; data is previous_data itself
bp_process_data(json_data, data_time, previous_data) ==
    bp_cars(json_data, 1,
            [data |-> bp_reset_just_moved(previous_data),
             positions |-> << >>, trips |-> << >>],
            data_time)

\* "if 'placemarks' in json_data: json_data = json_data['placemarks']"
bp_placemarks(json_data) ==
    IF Has(json_data, "placemarks") THEN json_data.placemarks ELSE << >>

\* "for vin in saved_data:" the trips of the vehicles that have just moved
bp_organize(by_vin, saved) ==
    [vin \in DOMAIN saved |->
        (IF Has(by_vin, vin) THEN by_vin[vin] ELSE << >>)
        \o (IF saved[vin].just_moved
            THEN <<saved[vin].most_recent_trip>> ELSE << >>)]

\* "shutil.copy2(next_filepath, filepath)" and "json_data =
\* load_file(filepath)" when the file looked at is usable
bp_use_instead(sk, time, next_t, next_json_data) ==
    IF next_json_data = Raise THEN [sk EXCEPT !.json_data = Raise]
    ELSE IF next_json_data # False
    THEN [sk EXCEPT !.dir = Put(@, time, FileAt(sk.dir, next_t)),
                    !.json_data = bp_load_file(FileAt(sk.dir, next_t))]
    ELSE sk

\* "while json_data == False and skipped < max_skip:"
RECURSIVE bp_skip(_, _, _, _, _)
bp_skip(sk, time, next_t, limit, step) ==
    IF ~(sk.json_data = False /\ sk.skipped < limit) THEN sk
    ELSE bp_skip(
             bp_use_instead([sk EXCEPT !.skipped = @ + 1], time,
                            next_t + step,
                            bp_load_file(FileAt(sk.dir, next_t + step))),
             time, next_t + step, limit, step)

\* the call batch_process(city, starting_time, dry = True, max_files,
\* max_skip, file_dir, time_step) up to "saved_data = {}"
ScriptStart(shape, files) ==
    /\ cfg = shape
    /\ system = None /\ location = None /\ archive = "none"
    /\ load_data_point = "load_file"
    /\ heap = << >>
    /\ starting_time = 3600
    /\ time_step \in shape.time_steps
    /\ file_dir \in [ScriptTimes(shape, starting_time, time_step) -> files]
    /\ last_file_time = None /\ requested_ending_time = None
    /\ ending_time = None
    /\ old_i = 1
    /\ t = starting_time
    /\ max_files \in shape.max_files
    /\ max_skip \in shape.max_skip
    /\ skipped = 0
    /\ potentially_missing = None
    /\ data_frames = << >> /\ all_trips = << >>
    /\ trips_by_vin = EmptyDict /\ saved_data = EmptyDict
    /\ data = None
    /\ prev_t = None
    /\ unfinished_trips = None /\ unfinished_parkings = None
    /\ unstarted_trips = None /\ finished_trips = None
    /\ finished_parkings = None /\ missing_data_points = None
    /\ new_finished_trips = None /\ new_finished_parkings = None
    /\ unstarted_trips_this_round = None
    /\ history = << >>
    /\ result = None
    /\ pc = "start"

InitScript == ScriptStart(Script, ScriptFiles(Script))

\* what batch_process has no access to, and its parameters
NotInScript ==
    <<cfg, system, location, archive, starting_time, time_step,
      last_file_time, requested_ending_time, load_data_point, max_files,
      max_skip, potentially_missing, heap, prev_t, unfinished_trips,
      unfinished_parkings, unstarted_trips, finished_trips,
      finished_parkings, missing_data_points, new_finished_trips,
      new_finished_parkings, unstarted_trips_this_round, history, result>>

\* "json_data = load_file(filepath)" of the first file
BpLoadFirst ==
    /\ pc = "start"
    /\ cfg.name = "script"
    /\ data' = bp_load_file(FileAt(file_dir, t))
    /\ pc' = IF bp_load_file(FileAt(file_dir, t)) = Raise THEN "raised"
             ELSE "bp_while"
    /\ UNCHANGED <<NotInScript, ending_time, t, old_i, skipped, file_dir,
                   saved_data, trips_by_vin, data_frames, all_trips>>

\* "json_data != False and (max_files is False or i <= max_files)"
BpWhileCond ==
    /\ data # False
    /\ (IF max_files = False THEN TRUE ELSE old_i <= max_files.value)

\* one iteration of the loop: r is what process_data returned and sk what
\* the load of the next file and the skip loop left
BpAssign(r, sk) ==
    /\ saved_data' = r.data
    /\ trips_by_vin' = bp_organize(trips_by_vin, r.data)
    /\ data_frames' = Append(data_frames,
                             [t |-> t, positions |-> r.positions,
                              trips |-> r.trips])
    /\ all_trips' = all_trips \o r.trips
    /\ old_i' = old_i + 1
    /\ t' = t + time_step * 60
    /\ file_dir' = sk.dir
    /\ data' = sk.json_data
    /\ skipped' = sk.skipped
    /\ pc' = IF sk.json_data = Raise THEN "raised" ELSE "bp_while"

BpProcess ==
    /\ pc = "bp_while"
    /\ BpWhileCond
    /\ BpAssign(bp_process_data(bp_placemarks(data), t, saved_data),
                bp_skip([dir |-> file_dir,
                         json_data |->
                             bp_load_file(FileAt(file_dir,
                                                 t + time_step * 60)),
                         skipped |-> 0],
                        t + time_step * 60, t + time_step * 60, max_skip,
                        time_step * 60))
    /\ UNCHANGED <<NotInScript, ending_time>>

\* the loop is over: "ending_time = data_frames[-1][0]", an IndexError when
\* no file was processed; with dry = True nothing else is done
BpEnd ==
    /\ pc = "bp_while"
    /\ ~BpWhileCond
    /\ IF data_frames = << >>
       THEN pc' = "raised" /\ UNCHANGED ending_time
       ELSE pc' = "done" /\ ending_time' = data_frames[Len(data_frames)].t
    /\ UNCHANGED <<NotInScript, t, old_i, skipped, file_dir, data,
                   saved_data, trips_by_vin, data_frames, all_trips>>

NextScript == BpLoadFirst \/ BpProcess \/ BpEnd

SpecScript == InitScript /\ [][NextScript]_vars

\* batch_process over files that may list a vehicle twice: load_file and
\* process_data take any list of records
ScriptTwice == [Script EXCEPT !.ncycles = MaxCyclesTwice]

\* a document that lists a vehicle a second time, at any of the positions
ListedTwice(shape) ==
    {[kind |-> "json",
      json |-> [py |-> "dict",
                placemarks |-> <<Placemark(v, c1, f), Placemark(v, c2, f)>>]] :
        v \in shape.vins, c1 \in shape.coords, c2 \in shape.coords,
        f \in shape.fuels}

InitScriptTwice ==
    ScriptStart(ScriptTwice, ScriptFiles(ScriptTwice) \cup ListedTwice(ScriptTwice))

SpecScriptTwice == InitScriptTwice /\ [][NextScript]_vars

\* a step that loads the file of a cycle: the first file, or the next file
\* at the end of an iteration; the cycle is t of the state after the step
ScriptLoadStep ==
    \/ pc = "start" /\ pc' # "start"
    \/ pc = "bp_while" /\ t' # t

\* the times of the next max_skip cycles after time whose file is a JSON
\* document
UsableAfter(time) ==
    {time + k * time_step * 60 : k \in 1..max_skip}
    \cap {x \in DOMAIN file_dir : file_dir[x].kind = "json"}

(***************************************************************************)
(* C26: in batch_process, when the file of the cycle that is loaded is     *)
(* missing or malformed and one of the files of the next max_skip cycles   *)
(* is a JSON document, the run goes on with the document of the earliest   *)
(* such file as the data of the cycle; with max_skip = 0 a missing or      *)
(* malformed file ends the run.                                            *)
(***************************************************************************)
C26_SkipWorksAround ==
    [][(ScriptLoadStep /\ MissingOrInvalid(FileAt(file_dir, t')))
         => /\ UsableAfter(t') # {}
                 => /\ data' = file_dir[Min(UsableAfter(t'))].json
                    /\ pc' = "bp_while"
            /\ max_skip = 0 => data' = False]_vars


\* the step that leaves the skip loop of the old driver
OldSkipLoopLeft == pc = "old_skip" /\ pc' = "old_while"

\* the number of files the skip loop found missing or malformed in a row
FilesSkipped == Len(potentially_missing)

(***************************************************************************)
(* C27: in batch_load_data of src/normalize.py with max_skip = n >= 1 the  *)
(* skip loop after a processed cycle gives up only on a run of more than n *)
(* missing or malformed files; when it ends on a valid file, prev_t is     *)
(* still the last processed cycle and the files skipped are added to the   *)
(* missing list; with max_skip = 0 it gives up at the first such file.     *)
(***************************************************************************)
C27_OldSkipBridgesN ==
    [][OldSkipLoopLeft
         => IF Truthy(data)
            THEN /\ missing_data_points'
                       = missing_data_points \o potentially_missing
                 /\ prev_t = t - (FilesSkipped + 1) * time_step * 60
                 /\ prev_t = Max(ProcessedTimes)
            ELSE /\ max_skip >= 1 => FilesSkipped > max_skip
                 /\ max_skip = 0 => FilesSkipped = 1]_vars


\* v was not listed in a processed snapshot between the two times
AbsentBetween(v, from_time, to_time) ==
    \E k \in 1..Len(history) :
        /\ history[k].ok
        /\ from_time < history[k].t /\ history[k].t < to_time
        /\ v \notin history[k].vins

\* the trip is between two positions, or over an absence of the vehicle
MovedOrAbsent(v, trip) ==
    \/ trip.to # trip["from"]
    \/ AbsentBetween(v, trip.starting_time, trip.ending_time)

AllMovedOrAbsent(lists) ==
    \A v \in DOMAIN lists :
        \A k \in 1..Len(lists[v]) : MovedOrAbsent(v, lists[v][k])

AllMoved(lists) ==
    \A v \in DOMAIN lists :
        \A k \in 1..Len(lists[v]) : lists[v][k].to # lists[v][k]["from"]

\* the claim as stated: every finished trip ends at another position than
\* the one it started from
C28_TripsMove_AsStated ==
    cfg.name # "old"
       => /\ AllMoved(finished_trips)
          /\ result # None => AllMoved(result.finished_trips)

(***************************************************************************)
(* C28: every finished trip connects two observations of the vehicle       *)
(* between which its position changed or it was not listed in a processed  *)
(* snapshot: to differs from from, or a processed cycle between            *)
(* starting_time and ending_time did not list the vehicle.                 *)
(***************************************************************************)
C28_TripsMoveOrSpanAbsence ==
    cfg.name # "old"
       => /\ AllMovedOrAbsent(finished_trips)
          /\ result # None => AllMovedOrAbsent(result.finished_trips)

\* a returned result with the trip of a vehicle that was not listed for a
\* cycle and came back to the position it had left
C28_Witness ==
    /\ pc = "done"
    /\ \E v \in DOMAIN result.finished_trips :
          \E k \in 1..Len(result.finished_trips[v]) :
              /\ result.finished_trips[v][k].to
                    = result.finished_trips[v][k]["from"]
              /\ AbsentBetween(v, result.finished_trips[v][k].starting_time,
                               result.finished_trips[v][k].ending_time)


(***************************************************************************)
(* C29: after every call of process_data that returns, on a snapshot S     *)
(* with unique ids, the keys of unfinished_parkings are the ids listed in  *)
(* S, each open parking has the coordinates of its vehicle in S, and the   *)
(* keys of unfinished_trips are the ids listed in an earlier processed     *)
(* snapshot and not in S.                                                  *)
(***************************************************************************)
C29_OpenMapsFollowSnapshot ==
    [][(cfg.name # "old" /\ ProcessedStep)
         => /\ DOMAIN unfinished_parkings' = ListedVins(data')
            /\ \A v \in ListedVins(data') :
                  unfinished_parkings'[v].coords = CoordsOf(data', v)
            /\ DOMAIN unfinished_trips' = EverSeen \ ListedVins(data')]_vars

\* after a processed snapshot one vehicle seen before is not listed, and
\* the other one is listed at another position than its open parking had
C29_Witness ==
    /\ pc = "loop"
    /\ Truthy(data)
    /\ Len(history) >= 2
    /\ history[Len(history)].ok
    /\ DOMAIN unfinished_trips # {}
    /\ \E v \in DOMAIN unfinished_parkings :
          /\ v \in DOMAIN finished_trips
          /\ unfinished_parkings[v].coords = CoordsOf(data, v)
          /\ unfinished_parkings[v].starting_time = history[Len(history)].t


\* unstarted_trips has one entry for each vehicle listed so far, which ends
\* at the vehicle's first listing
UnstartedAtFirstListing(unstarted) ==
    /\ DOMAIN unstarted = EverSeen
    /\ \A v \in EverSeen : unstarted[v].ending_time = FirstSeen(v)

(***************************************************************************)
(* C30: over a run unstarted_trips has exactly one entry per vehicle       *)
(* listed so far, made in the cycle that first listed the vehicle with     *)
(* that cycle's time as ending_time, and no later cycle changes an entry;  *)
(* its keys are those of unfinished_parkings and unfinished_trips together.*)
(***************************************************************************)
C30_UnstartedTripsOncePerVehicle ==
    /\ [](/\ UnstartedAtFirstListing(unstarted_trips)
          /\ DOMAIN unstarted_trips
                = (DOMAIN unfinished_parkings) \cup (DOMAIN unfinished_trips)
          /\ pc = "done" => result.unstarted_trips = unstarted_trips)
    /\ [][\A v \in DOMAIN unstarted_trips :
              /\ v \in DOMAIN unstarted_trips'
              /\ unstarted_trips'[v] = unstarted_trips[v]]_vars

\* a returned run in which a vehicle was listed, then not listed in two
\* processed snapshots, then listed again
C30_Witness ==
    /\ pc = "done"
    /\ \E v \in EverSeen :
          \E i, j \in 1..Len(history) :
              /\ i = Min(SeenAt(history, v))
              /\ i + 2 < j
              /\ v \in history[j].vins
              /\ \A k \in (i + 1)..(j - 1) :
                    history[k].ok /\ v \notin history[k].vins
              /\ result.unstarted_trips[v].ending_time = history[i].t


\* trip k of the vehicle follows its finished parking k
TripFollowsParking(P, T, k) ==
    /\ k <= Len(P)
    /\ T[k].starting_time = P[k].ending_time
    /\ T[k]["from"] = P[k].coords

\* finished parking k of the vehicle follows its trip k - 1
ParkingFollowsTrip(P, T, k) ==
    /\ k - 1 <= Len(T)
    /\ P[k].starting_time = T[k - 1].ending_time
    /\ P[k].coords = T[k - 1].to

\* the first parking of the vehicle, finished or open, starts where its
\* unstarted trip ends
FirstParkingAfterUnstarted(P, open_parkings, unstarted, v) ==
    IF Len(P) > 0 THEN P[1].starting_time = unstarted[v].ending_time
    ELSE /\ v \in DOMAIN open_parkings
         /\ open_parkings[v].starting_time = unstarted[v].ending_time

\* the open record of the vehicle starts where its last finished record ended
OpenRecordFollows(P, T, open_parkings, open_trips, v) ==
    /\ v \in DOMAIN open_parkings
          => /\ Len(P) = Len(T)
             /\ Len(T) > 0
                   => /\ open_parkings[v].starting_time = T[Len(T)].ending_time
                      /\ open_parkings[v].coords = T[Len(T)].to
    /\ v \in DOMAIN open_trips
          => /\ Len(P) = Len(T) + 1
             /\ open_trips[v].starting_time = P[Len(P)].ending_time
             /\ open_trips[v]["from"] = P[Len(P)].coords

TilesFor(P, T, open_parkings, open_trips, unstarted, v) ==
    /\ FirstParkingAfterUnstarted(P, open_parkings, unstarted, v)
    /\ \A k \in 1..Len(T) : TripFollowsParking(P, T, k)
    /\ \A k \in 2..Len(P) : ParkingFollowsTrip(P, T, k)
    /\ OpenRecordFollows(P, T, open_parkings, open_trips, v)

Tiles(r) ==
    \A v \in DOMAIN r.unstarted_trips :
        TilesFor(ListOf(r.finished_parkings, v), ListOf(r.finished_trips, v),
                 r.unfinished_parkings, r.unfinished_trips,
                 r.unstarted_trips, v)

(***************************************************************************)
(* C31: the records of a vehicle tile time.  Its first parking starts at   *)
(* the ending_time of its unstarted trip, each finished trip starts at the *)
(* ending_time and position of the finished parking before it, each later  *)
(* parking starts at the ending_time and to of the trip before it, and the *)
(* open record starts where the last finished record ended.                *)
(***************************************************************************)
C31_RecordsTile ==
    /\ Tiles([finished_parkings |-> finished_parkings,
              finished_trips |-> finished_trips,
              unfinished_parkings |-> unfinished_parkings,
              unfinished_trips |-> unfinished_trips,
              unstarted_trips |-> unstarted_trips])
    /\ pc = "done" => Tiles(result)

\* a returned result in which a vehicle has two finished parkings, two
\* finished trips and an open parking
C31_Witness ==
    /\ pc = "done"
    /\ \E v \in DOMAIN result.unfinished_parkings :
          /\ Len(ListOf(result.finished_parkings, v)) >= 2
          /\ Len(ListOf(result.finished_trips, v)) >= 2


\* the processed cycle after processed cycle k of the history, if any
NextCall(k) == {j \in Calls(history) :
                   j > k /\ \A i \in Calls(history) : ~(k < i /\ i < j)}

\* the vehicle was listed in the processed cycle at time, and in the next
\* processed cycle it was not listed or had moved
SeenOnceThenGone(v, time, trips) ==
    \E k \in Calls(history) :
        /\ history[k].t = time
        /\ v \in history[k].vins
        /\ \E j \in NextCall(k) :
              \/ v \notin history[j].vins
              \/ \E n \in 1..Len(trips) :
                    /\ trips[n].starting_time = time
                    /\ trips[n].ending_time = history[j].t
                    /\ trips[n].to # trips[n]["from"]

TripDurations(trips) ==
    \A n \in 1..Len(trips) :
        /\ trips[n].duration >= time_step
        /\ "speed" \in DOMAIN trips[n]

ParkingDurations(v, parkings, trips) ==
    \A n \in 1..Len(parkings) :
        /\ parkings[n].duration >= 0
        /\ parkings[n].duration = 0
              => SeenOnceThenGone(v, parkings[n].starting_time, trips)

Durations(parkings, trips) ==
    /\ \A v \in DOMAIN trips : TripDurations(trips[v])
    /\ \A v \in DOMAIN parkings :
          ParkingDurations(v, parkings[v], ListOf(trips, v))

(***************************************************************************)
(* C32: in a batch run with a positive time_step every finished trip has a *)
(* duration of at least time_step and so has a speed, every finished       *)
(* parking has a duration of at least 0, and one of duration 0 is that of  *)
(* a vehicle listed in one processed cycle and not listed, or listed at    *)
(* another position, in the next processed cycle.                          *)
(***************************************************************************)
C32_Durations ==
    /\ Durations(finished_parkings, finished_trips)
    /\ pc = "done"
          => Durations(result.finished_parkings, result.finished_trips)

\* a returned result with a finished parking of duration 0 and a finished
\* trip over the same distance 0
C32_Witness ==
    /\ pc = "done"
    /\ \E v \in DOMAIN result.finished_parkings :
          /\ \E n \in 1..Len(result.finished_parkings[v]) :
                result.finished_parkings[v][n].duration = 0
          /\ \E n \in 1..Len(ListOf(result.finished_trips, v)) :
                /\ result.finished_trips[v][n].distance = 0
                /\ result.finished_trips[v][n].speed = 0


\* the tracked attributes of a parking or of a listed record
Tracked(rec, keys) == [key \in keys |-> rec[key]]

\* a parking opened in this step holds the fuel and the tracked attributes
\* of the listing, and one that stays open is not changed
ParkingCapturesStart(v) ==
    IF v \in DOMAIN unfinished_parkings
          /\ unfinished_parkings'[v].starting_time
                = unfinished_parkings[v].starting_time
    THEN unfinished_parkings'[v] = unfinished_parkings[v]
    ELSE /\ unfinished_parkings'[v].starting_time = t
         /\ unfinished_parkings'[v].fuel = CarOf(data', v).fuel
         /\ \A key \in OTHER_KEYS(get_cars_from_json(data')) :
               unfinished_parkings'[v][key] = CarOf(data', v)[key]

\* a parking finished in this step holds what it held while it was open
ParkingKeepsStart(v) ==
    /\ v \in DOMAIN unfinished_parkings
    /\ \A key \in DOMAIN unfinished_parkings[v] :
          new_finished_parkings'[v][key] = unfinished_parkings[v][key]

\* the trip finished in this step is the last of the vehicle's list; its
\* start side is that of the finished parking before it, its end side that
\* of the listing
TripSides(v, trip, parking) ==
    /\ trip.starting_fuel = parking.fuel
    /\ trip.start = Tracked(parking, DOMAIN trip.start)
    /\ DOMAIN trip.start = OTHER_KEYS(get_cars_from_json(data'))
    /\ trip.ending_fuel = CarOf(data', v).fuel
    /\ trip["end"] = Tracked(CarOf(data', v), DOMAIN trip.start)
    /\ trip.fuel_use = trip.starting_fuel - trip.ending_fuel

ListsNoVehicle(d) == Truthy(d) /\ get_cars_from_json(d) = << >>

\* the open parking of v is closed at prev_t and becomes an open trip from
\* prev_t
ParkingBecomesTrip(v) ==
    /\ v \in DOMAIN new_finished_parkings'
    /\ new_finished_parkings'[v].ending_time = prev_t
    /\ new_finished_parkings'[v].coords = unfinished_parkings[v].coords
    /\ finished_parkings'[v][Len(finished_parkings'[v])]
          = new_finished_parkings'[v]
    /\ v \in DOMAIN unfinished_trips'
    /\ unfinished_trips'[v].starting_time = prev_t
    /\ unfinished_trips'[v]["from"] = unfinished_parkings[v].coords

(***************************************************************************)
(* C34: a loaded snapshot that lists no vehicle is processed as a cycle:   *)
(* the iteration does not raise, every open parking is finished at         *)
(* prev_data_time and becomes an open trip from prev_data_time,            *)
(* unfinished_parkings is left empty, prev_t becomes the time of the       *)
(* cycle and the time is not added to the missing data points.             *)
(***************************************************************************)
C34_EmptySnapshotIsACycle ==
    /\ []((pc = "loop" /\ t <= ending_time)
            => \A file \in GoodFiles(cfg) :
                  ListsNoVehicle(file.json)
                     => ~LoopBody(Loop, load_data_point, file).raised)
    /\ [][(ProcessedStep /\ ListsNoVehicle(data'))
            => /\ pc' = "loop"
               /\ t' = t + time_step
               /\ prev_t' = t
               /\ missing_data_points' = missing_data_points
               /\ \A v \in DOMAIN unfinished_parkings : ParkingBecomesTrip(v)
               /\ unfinished_parkings' = EmptyDict
               /\ DOMAIN unfinished_trips'
                     = (DOMAIN unfinished_trips)
                          \cup (DOMAIN unfinished_parkings)
               /\ \A v \in DOMAIN unfinished_trips :
                     unfinished_trips'[v] = unfinished_trips[v]
               /\ new_finished_trips' = EmptyDict]_vars

\* a snapshot that lists no vehicle has just been processed while two
\* vehicles were parked
C34_Witness ==
    /\ pc = "loop"
    /\ ListsNoVehicle(data)
    /\ Len(history) >= 2
    /\ history[Len(history)].ok
    /\ prev_t = history[Len(history)].t
    /\ unfinished_parkings = EmptyDict
    /\ DOMAIN new_finished_parkings = {"v1", "v2"}
    /\ DOMAIN unfinished_trips = {"v1", "v2"}
    /\ missing_data_points = << >>


\* the fields that a record gets when it is closed
ParkingEndSide == {"ending_time", "duration"}

TripEndSide == {"ending_time", "to", "ending_fuel", "distance", "duration"}

OpenParkingIsStartSide(parking) ==
    /\ "starting_time" \in DOMAIN parking
    /\ (DOMAIN parking) \cap ParkingEndSide = {}

OpenTripIsStartSide(trip) ==
    /\ {"from", "starting_time", "starting_fuel"} \subseteq DOMAIN trip
    /\ (DOMAIN trip) \cap TripEndSide = {}

(***************************************************************************)
(* C35: the open records hold start-side data only.  Every record of       *)
(* unfinished_parkings has a starting_time and neither ending_time nor     *)
(* duration; every record of unfinished_trips has from, starting_time and  *)
(* starting_fuel and none of ending_time, to, ending_fuel, distance and    *)
(* duration.                                                               *)
(***************************************************************************)
C35_OpenRecordsStartSideOnly ==
    /\ \A v \in DOMAIN unfinished_parkings :
          OpenParkingIsStartSide(unfinished_parkings[v])
    /\ \A v \in DOMAIN unfinished_trips :
          OpenTripIsStartSide(unfinished_trips[v])


\* the grid of data points from starting_time up to the time end
Grid(end) ==
    {x \in {starting_time + k * time_step : k \in 0..(cfg.ncycles + 1)} :
        x <= end}

\* the elements of a sequence of times
TimesOf(times) == {times[k] : k \in 1..Len(times)}

Increasing(times) ==
    \A j, k \in 1..Len(times) : j < k => times[j] < times[k]

(***************************************************************************)
(* C36: at the end of a run of batch_load_data the times of the processed  *)
(* cycles and the times in metadata.missing have no time in common and     *)
(* together are the grid from starting_time in steps of time_step up to    *)
(* the ending_time in effect, missing times before the first and after the *)
(* last processed cycle included; metadata.missing is in increasing order. *)
(***************************************************************************)
C36_ProcessedAndMissingPartitionGrid ==
    (cfg.name # "old" /\ pc = "done")
       => /\ ProcessedTimes \cap TimesOf(result.metadata.missing) = {}
          /\ ProcessedTimes \cup TimesOf(result.metadata.missing)
                = Grid(ending_time)
          /\ ending_time = LastToLoad
          /\ Increasing(result.metadata.missing)

\* a returned run whose first and last data points are missing, with a
\* processed one between them
C36_Witness ==
    /\ cfg.name # "old"
    /\ pc = "done"
    /\ Len(result.metadata.missing) >= 2
    /\ ProcessedTimes # {}
    /\ result.metadata.missing[1] = starting_time
    /\ result.metadata.missing[1] < Min(ProcessedTimes)
    /\ result.metadata.missing[Len(result.metadata.missing)]
          > Max(ProcessedTimes)
    /\ result.metadata.missing[Len(result.metadata.missing)] = ending_time


\* the times of the files that were found missing or malformed between two
\* processed cycles
SkippedBetweenCalls ==
    {history[k].t : k \in {n \in 1..Len(history) :
                             /\ ~history[n].ok
                             /\ \E i \in Calls(history) : i < n
                             /\ \E j \in Calls(history) : n < j}}

SkippedAfterLastCall ==
    {history[k].t : k \in {n \in 1..Len(history) :
                             /\ ~history[n].ok
                             /\ \A i \in Calls(history) : i < n}}

\* a document that is false in a condition was passed to process_data: the
\* skip loop took it as missing and the outer loop as loaded
FalsyDocumentProcessed ==
    \E j, k \in 1..Len(history) : j # k /\ history[j].t = history[k].t

OldFileTime(n) == starting_time + n * time_step * 60

(***************************************************************************)
(* C38: batch_load_data of src/normalize.py with max_files = n processes   *)
(* at most n snapshots and none at or after starting_time + n time steps,  *)
(* so the files it skips count against the limit; with max_files = False   *)
(* the run ends only at a file that cannot be loaded.                      *)
(***************************************************************************)
C38_OldMaxFiles ==
    cfg.name = "old"
       => /\ max_files # False
                => /\ Cardinality(Calls(history)) <= max_files.value
                   /\ \A x \in ProcessedTimes :
                         x < OldFileTime(max_files.value)
          /\ (max_files = False /\ pc = "done") => data = False

\* a returned run with max_files = 2 that processed the first file, skipped
\* the second and found the third, which it did not process
C38_Witness ==
    /\ cfg.name = "old"
    /\ pc = "done"
    /\ max_files # False
    /\ max_files.value = 2
    /\ Cardinality(Calls(history)) = 1
    /\ Truthy(data)
    /\ t = OldFileTime(2)
    /\ result.metadata.ending_time = starting_time


\* the position in the function and the time of the data point: every
\* step of a driver changes one of the two
Progress == <<pc, t>>

\* the interpreter goes on executing the function until it returns, raises
\* or exits.  A step of a driver is possible exactly in the states that are
\* not Ended, and every step changes Progress, so this is weak fairness of
\* NextDrivers with its enabling condition written out.
SpecDriversFair ==
    SpecDrivers /\ ([]<>Ended \/ []<><<TRUE>>_Progress)

\* the loads the skip loop has made since the last processed cycle
LoadAttempts == (t - prev_t) \div (time_step * 60)

(***************************************************************************)
(* C39: batch_load_data terminates for every pattern of present and        *)
(* missing data points.  The newer driver returns only once t is later     *)
(* than the ending_time in effect, the driver of src/normalize.py returns  *)
(* only at a file it could not load or when max_files is reached, and its  *)
(* skip loop makes at least one and at most max(1, max_skip) loads in an   *)
(* iteration of the outer loop.                                            *)
(***************************************************************************)
C39_Termination ==
    /\ <>Ended
    /\ [][/\ (pc = "loop" /\ pc' = "done") => t > ending_time
          /\ (pc = "old_while" /\ pc' = "done")
                => \/ data = False
                   \/ max_files # False /\ old_i > max_files.value
          /\ OldSkipLoopLeft
                => /\ LoadAttempts >= 1
                   /\ LoadAttempts <= Max({1, max_skip})]_vars


\* the driver of src/normalize.py has returned at a gap it could not bridge,
\* after its skip loop made max_skip = 2 loads
C39_Witness ==
    /\ cfg.name = "old"
    /\ pc = "done"
    /\ data = False
    /\ max_skip = 2
    /\ LoadAttempts = 2
    /\ Cardinality(Calls(history)) >= 1

\* how many times x is in the list
Occurrences(list, x) == Cardinality({k \in DOMAIN list : list[k] = x})

\* the trips that process_data has returned, cycle by cycle
RECURSIVE DetectedTrips(_)
DetectedTrips(frames) ==
    IF frames = << >> THEN << >>
    ELSE DetectedTrips(SubSeq(frames, 1, Len(frames) - 1))
            \o frames[Len(frames)].trips

\* the lists of trips_by_vin hold x as many times as all_trips does
SameCount(x) ==
    /\ Has(trips_by_vin, x.vin)
    /\ Occurrences(trips_by_vin[x.vin], x) = Occurrences(all_trips, x)
    /\ \A vin \in DOMAIN trips_by_vin \ {x.vin} :
          Occurrences(trips_by_vin[vin], x) = 0

(***************************************************************************)
(* C40: in src/process.py every trip that process_data has detected is in  *)
(* trips_by_vin[vin] exactly once, also when the vehicle is not listed in   *)
(* the cycles after its move: the lists of trips_by_vin together hold the   *)
(* trips of all_trips, each as many times as all_trips holds it.            *)
(***************************************************************************)
C40_TripsByVinOnce ==
    (cfg.name = "script" /\ pc # "start") =>
        /\ all_trips = DetectedTrips(data_frames)
        /\ \A k \in DOMAIN all_trips :
              /\ Occurrences(trips_by_vin[all_trips[k].vin], all_trips[k]) = 1
              /\ SameCount(all_trips[k])
        /\ \A vin \in DOMAIN trips_by_vin :
              \A k \in DOMAIN trips_by_vin[vin] :
                 SameCount(trips_by_vin[vin][k])

====
